---- MODULE Spec2Model ----
\* Verification model of BeyondUID's remote-configuration update checker
\* (beyonduid_server_update_check): fetch -> decode -> normalize/diff ->
\* versioned snapshot store -> notification composer, driven by the scheduled
\* tick and by the manual chat commands, which interleave at their awaits.
EXTENDS Integers, Sequences, FiniteSets, TLC

\* ---------------------------------------------------------------------------
\* Bounds of the model
\* ---------------------------------------------------------------------------
\* scheduled ticks explored in one behaviour
MaxTicks == 2
\* manual command queries explored in one behaviour
MaxCmds == 1
\* OS errors and garbled writes explored in one behaviour
MaxFaults == 1
\* longest tail (tokens after the first) of an enumerated string
MaxTail == 3
\* largest integer value of an enumerated map
MaxVal == 3

\* ---------------------------------------------------------------------------
\* JSON values.  A value is a tagged tuple, so that values of different Python
\* types compare unequal instead of being incomparable:
\*   <<"null">>  <<"bool", b>>  <<"int", n>>  <<"str", tokens>>
\*   <<"list", sequence of values>>  <<"map", [keys -> values]>>
\* A Python str is a sequence of tokens; the tokens "http://" and "https://"
\* stand for those character runs, "/", "?", "#", ";" for themselves.
\* ---------------------------------------------------------------------------
JNull == <<"null">>
JBool(b) == <<"bool", b>>
JInt(n) == <<"int", n>>
JStr(s) == <<"str", s>>
JList(q) == <<"list", q>>
JMap(f) == <<"map", f>>
EmptyDict == JMap(<<>>)
IsDict(v) == v[1] = "map"
IsList(v) == v[1] = "list"
IsStr(v) == v[1] = "str"
Keys(v) == DOMAIN v[2]

\* Python's None as a function result (no value at all)
None == <<"None">>

\* first index i >= from with s[i] \in toks, or Len(s) + 1 (str.find)
Find(s, toks, from) ==
    LET hits == {i \in from..Len(s) : s[i] \in toks}
    IN IF hits = {} THEN Len(s) + 1 ELSE CHOOSE i \in hits : \A j \in hits : i <= j

\* last index i with s[i] \in toks, or 0 (str.rfind)
RFind(s, toks) ==
    LET hits == {i \in 1..Len(s) : s[i] \in toks}
    IN IF hits = {} THEN 0 ELSE CHOOSE i \in hits : \A j \in hits : i >= j

\* s[a..b] as Python slices do (empty when a > b)
Slice(s, a, b) == IF a > b THEN <<>> ELSE SubSeq(s, a, b)

\* str.startswith(("http://", "https://"))
StartsWithHttp(s) == Len(s) >= 1 /\ s[1] \in {"http://", "https://"}

\* urllib.parse.urlparse of a string that starts with a scheme: the netloc runs
\* to the first of "/", "?", "#"; the fragment is cut at the first "#", the
\* query at the first "?" before it, and the params at the first ";" of the
\* last path segment.
urlparse(url) ==
    LET rest == Tail(url)
        nEnd == Find(rest, {"/", "?", "#"}, 1)
        netloc == Slice(rest, 1, nEnd - 1)
        u0 == Slice(rest, nEnd, Len(rest))
        fPos == Find(u0, {"#"}, 1)
        fragment == Slice(u0, fPos + 1, Len(u0))
        u1 == Slice(u0, 1, fPos - 1)
        qPos == Find(u1, {"?"}, 1)
        query == Slice(u1, qPos + 1, Len(u1))
        u2 == Slice(u1, 1, qPos - 1)
        slash == RFind(u2, {"/"})
        pPos == Find(u2, {";"}, IF slash = 0 THEN 1 ELSE slash)
        params == Slice(u2, pPos + 1, Len(u2))
        path == Slice(u2, 1, pPos - 1)
    IN [scheme |-> url[1], netloc |-> netloc, path |-> path,
        params |-> params, query |-> query, fragment |-> fragment]

\* urllib.parse.urlunparse: scheme://netloc path [;params] [?query] [#fragment]
urlunparse(p) ==
    <<p.scheme>> \o p.netloc \o p.path
        \o (IF p.params = <<>> THEN <<>> ELSE <<";">> \o p.params)
        \o (IF p.query = <<>> THEN <<>> ELSE <<"?">> \o p.query)
        \o (IF p.fragment = <<>> THEN <<>> ELSE <<"#">> \o p.fragment)

\* a plausible slip: the query is cut at the last "?" instead of the first
strip_last_query(url) ==
    LET q == RFind(url, {"?"})
    IN IF q = 0 THEN url ELSE Slice(url, 1, q - 1)

\* a plausible slip: the URL is returned as it came
strip_nothing(url) == url

\* utils.strip_url_query_params (called on str values only)
strip_url_query_params(url) ==
    IF url = <<>> THEN url
    ELSE LET parsed == urlparse(url)
         IN urlunparse([parsed EXCEPT !.params = <<>>, !.query = <<>>,
                                      !.fragment = <<>>])

\* utils.normalize_data_for_comparison
RECURSIVE normalize_data_for_comparison(_)
normalize_data_for_comparison(data) ==
    IF IsDict(data)
    THEN JMap([k \in Keys(data) |-> normalize_data_for_comparison(data[2][k])])
    ELSE IF IsList(data)
    THEN JList([i \in 1..Len(data[2]) |-> normalize_data_for_comparison(data[2][i])])
    ELSE IF IsStr(data) /\ StartsWithHttp(data[2])
    THEN JStr(strip_url_query_params(data[2]))
    ELSE data

\* ---------------------------------------------------------------------------
\* Schemas (model.py).  Each pydantic model is its fields with their type tag
\* and default; every field of these models has a default and unknown keys are
\* ignored on validation (pydantic's default).  Two fields of each model are
\* kept; the fields left out behave as the fields of the same type kept here.
\* ---------------------------------------------------------------------------
ConfigKinds ==
    {"network_config", "game_config", "res_version", "engine_config", "launcher_version"}

Tok(s) == JStr(<<s>>)
EmptyStr == JStr(<<>>)

NetworkConfig ==
    [u8root |-> [type |-> "str", default |-> EmptyStr],
     gameclose |-> [type |-> "bool", default |-> JBool(FALSE)]]

EngineConfig ==
    [Version |-> [type |-> "int", default |-> JInt(0)],
     Configs |-> [type |-> "str", default |-> EmptyStr]]

ResVersion ==
    [res_version |-> [type |-> "str", default |-> EmptyStr],
     domain |-> [type |-> "str", default |-> EmptyStr]]

LauncherVersion ==
    [version |-> [type |-> "str", default |-> EmptyStr],
     state |-> [type |-> "int", default |-> JInt(0)]]

RemoteConfigError ==
    [code |-> [type |-> "int", default |-> JInt(0)],
     reason |-> [type |-> "str", default |-> EmptyStr],
     message |-> [type |-> "str", default |-> EmptyStr]]

model_map ==
    [network_config |-> NetworkConfig, engine_config |-> EngineConfig,
     res_version |-> ResVersion, launcher_version |-> LauncherVersion]

\* BaseModel.model_validate succeeds: the data is a mapping and every field of
\* the schema that it carries has the field's type
Validates(data, schema) ==
    /\ IsDict(data)
    /\ \A f \in Keys(data) \cap DOMAIN schema : data[2][f][1] = schema[f].type

\* the validated model, dumped (model_dump(mode="json")): the schema's fields,
\* each from the data or its default, and nothing else
ModelDump(data, schema) ==
    JMap([f \in DOMAIN schema |->
            IF f \in Keys(data) THEN data[2][f] ELSE schema[f].default])

\* the model built with no argument: every field at its default
DefaultModel(schema) == JMap([f \in DOMAIN schema |-> schema[f].default])

\* ---------------------------------------------------------------------------
\* Fetch (update_checker.py).  A response is a JSON body or NetFail (the
\* request raised, or the text is no JSON).  What _fetch_single_config returns
\* is None (NoData), a model instance (ModelOf its dump) or the raw JSON
\* (RawData).
\* ---------------------------------------------------------------------------
NetFail == <<"netfail">>

NoData == [tag |-> "none", v |-> JNull]
ModelOf(v) == [tag |-> "model", v |-> v]
RawData(v) == [tag |-> "raw", v |-> v]

\* UpdateChecker._fetch_single_config
fetch_single_config(body, config_type) ==
    IF body = NetFail THEN NoData
    ELSE IF config_type \in DOMAIN model_map
    THEN IF Validates(body, model_map[config_type])
         THEN ModelOf(ModelDump(body, model_map[config_type]))
         ELSE IF body = JNull THEN NoData
         ELSE RawData(body)
    ELSE IF body = JNull THEN NoData
    ELSE RawData(body)

NoSnapshots == [k \in ConfigKinds |-> JNull]
FetchNone == [tag |-> "none", data |-> NoSnapshots]
FetchRaise == [tag |-> "raise", data |-> NoSnapshots]

\* a plausible slip: the resource version is requested whenever the launcher
\* answer has a version, with or without a rand_str
fetch_all_configs_any_token(r) ==
    LET launcher == fetch_single_config(r.launcher_version, "launcher_version")
        engine == fetch_single_config(r.engine_config, "engine_config")
        network == fetch_single_config(r.network_config, "network_config")
        game == fetch_single_config(r.game_config, "game_config")
        res_version ==
            IF launcher.tag = "model" /\ launcher.v[2].version # EmptyStr
            THEN fetch_single_config(r.res_version, "res_version")
            ELSE ModelOf(DefaultModel(ResVersion))
        all == <<launcher, engine, network, game, res_version>>
    IN IF \E i \in 1..Len(all) : all[i].tag = "none"
       THEN FetchNone
       ELSE IF (\E i \in {1, 2, 3, 5} : all[i].tag # "model") \/ ~IsDict(game.v)
       THEN FetchRaise
       ELSE [tag |-> "ok",
             data |-> [network_config |-> network.v, game_config |-> game.v,
                       res_version |-> res_version.v, engine_config |-> engine.v,
                       launcher_version |-> launcher.v]]

\* a plausible slip: a request that gives None is passed over and the kind's
\* default stands in for it
fetch_all_configs_partial(r) ==
    LET got(k) ==
            LET f == fetch_single_config(r[k], k)
            IN IF f.tag # "none" THEN f
               ELSE IF k \in DOMAIN model_map THEN ModelOf(DefaultModel(model_map[k]))
               ELSE RawData(EmptyDict)
        launcher == got("launcher_version")
        res_version ==
            IF launcher.v[2].version # EmptyStr /\ r.token THEN got("res_version")
            ELSE ModelOf(DefaultModel(ResVersion))
    IN IF (\E k \in {"launcher_version", "engine_config", "network_config"} :
            got(k).tag # "model")
          \/ res_version.tag # "model" \/ ~IsDict(got("game_config").v)
       THEN FetchRaise
       ELSE [tag |-> "ok",
             data |-> [network_config |-> got("network_config").v,
                       game_config |-> got("game_config").v,
                       res_version |-> res_version.v,
                       engine_config |-> got("engine_config").v,
                       launcher_version |-> launcher.v]]

\* UpdateChecker.fetch_all_configs for the responses r (one body per kind and
\* r.token: whether the token resolution yields a rand_str).  The result is
\* None (tag "none"), an exception (tag "raise": RemoteConfigRemoteData rejects
\* a value) or the five snapshots as parse_config_data dumps them (tag "ok").
fetch_all_configs(r) ==
    LET launcher == fetch_single_config(r.launcher_version, "launcher_version")
        engine == fetch_single_config(r.engine_config, "engine_config")
        network == fetch_single_config(r.network_config, "network_config")
        game == fetch_single_config(r.game_config, "game_config")
        fetch_params ==
            /\ launcher.tag = "model"
            /\ launcher.v[2].version # EmptyStr
            /\ r.token
        res_version ==
            IF fetch_params
            THEN fetch_single_config(r.res_version, "res_version")
            ELSE ModelOf(DefaultModel(ResVersion))
        all == <<launcher, engine, network, game, res_version>>
    IN IF \E i \in 1..Len(all) : all[i].tag = "none"
       THEN FetchNone
       ELSE IF (\E i \in {1, 2, 3, 5} : all[i].tag # "model") \/ ~IsDict(game.v)
       THEN FetchRaise
       ELSE [tag |-> "ok",
             data |-> [network_config |-> network.v, game_config |-> game.v,
                       res_version |-> res_version.v, engine_config |-> engine.v,
                       launcher_version |-> launcher.v]]

\* UpdateChecker.fetch_all_configs, the kinds it issues a request for: the
\* launcher version, then the three independent kinds until one of them gives
\* None, then the resource version when there are fetch parameters
requested(r) ==
    LET none(k) == fetch_single_config(r[k], k).tag = "none"
        launcher == fetch_single_config(r.launcher_version, "launcher_version")
        fetch_params ==
            /\ launcher.tag = "model"
            /\ launcher.v[2].version # EmptyStr
            /\ r.token
    IN IF none("launcher_version") THEN {"launcher_version"}
       ELSE IF none("engine_config") THEN {"launcher_version", "engine_config"}
       ELSE IF none("network_config")
       THEN {"launcher_version", "engine_config", "network_config"}
       ELSE IF none("game_config") \/ ~fetch_params
       THEN {"launcher_version", "engine_config", "network_config", "game_config"}
       ELSE ConfigKinds

\* ---------------------------------------------------------------------------
\* Versioned snapshot store (update_checker.py).  A history
\* (RemoteConfigDataWithUUID) is [data, last_updated, last_uuid]; data, an
\* insertion-ordered dict, is the sequence of its items [id, data, fetch_time].
\* The storage (RemoteConfigLocalStorage.platforms) maps the platforms it knows
\* to their five histories.
\* ---------------------------------------------------------------------------
\* UUID(int=0)
NullId == 0

Ids(h) == {h.data[i].id : i \in 1..Len(h.data)}

ItemOf(h, id) == h.data[CHOOSE i \in 1..Len(h.data) : h.data[i].id = id]

\* last_updated="" is the time -1
EmptyHistory == [data |-> <<>>, last_updated |-> -1, last_uuid |-> NullId]

\* UpdateChecker._create_empty_platform_config
create_empty_platform_config == [k \in ConfigKinds |-> EmptyHistory]

\* RemoteConfigLocalStorage(version="2.0", platforms={})
EmptyStorage == <<>>

\* The file on disk: absent, unreadable (truncated by an open for writing, or
\* garbled by two overlapping writes), or the JSON of a storage.
Absent == [st |-> "absent", storage |-> EmptyStorage]
Unreadable == [st |-> "unreadable", storage |-> EmptyStorage]
Written(storage) == [st |-> "ok", storage |-> storage]
Readable(f) == f.st = "ok"

\* UpdateChecker.load_cached_config
load_cached_config(f) == IF Readable(f) THEN f.storage ELSE EmptyStorage

\* a plausible slip: the new item is stored but the latest pointer is not moved
update_keeps_pointer(h, item, time, id) ==
    LET last == IF h.last_uuid \in Ids(h) THEN ItemOf(h, h.last_uuid).data ELSE None
    IN IF normalize_data_for_comparison(last) = normalize_data_for_comparison(item)
       THEN [h EXCEPT !.last_updated = time]
       ELSE [data |-> Append(h.data, [id |-> id, data |-> item, fetch_time |-> time]),
             last_updated |-> time, last_uuid |-> h.last_uuid]

\* a plausible slip: on unchanged content the fetch time of the latest entry is
\* refreshed instead of the history's last_updated
update_refreshes_entry(h, item, time, id) ==
    LET last == IF h.last_uuid \in Ids(h) THEN ItemOf(h, h.last_uuid).data ELSE None
    IN IF normalize_data_for_comparison(last) = normalize_data_for_comparison(item)
       THEN [h EXCEPT !.data = [i \in 1..Len(h.data) |->
                                    IF h.data[i].id = h.last_uuid
                                    THEN [h.data[i] EXCEPT !.fetch_time = time]
                                    ELSE h.data[i]]]
       ELSE [data |-> Append(h.data, [id |-> id, data |-> item, fetch_time |-> time]),
             last_updated |-> time, last_uuid |-> id]

\* a plausible slip: on changed content the mapping is built anew from the
\* fresh entry alone
update_replaces_mapping(h, item, time, id) ==
    LET last == IF h.last_uuid \in Ids(h) THEN ItemOf(h, h.last_uuid).data ELSE None
    IN IF normalize_data_for_comparison(last) = normalize_data_for_comparison(item)
       THEN [h EXCEPT !.last_updated = time]
       ELSE [data |-> <<[id |-> id, data |-> item, fetch_time |-> time]>>,
             last_updated |-> time, last_uuid |-> id]

\* a plausible slip: the fresh item is compared with the latest one as it is,
\* not normalized
update_compares_raw(h, item, time, id) ==
    LET last == IF h.last_uuid \in Ids(h) THEN ItemOf(h, h.last_uuid).data ELSE None
    IN IF last = item
       THEN [h EXCEPT !.last_updated = time]
       ELSE [data |-> Append(h.data, [id |-> id, data |-> item, fetch_time |-> time]),
             last_updated |-> time, last_uuid |-> id]

\* UpdateChecker.save_config._update_config_type_storage: the history after the
\* fresh item; id is the uuid4 it would mint, time the current time
update_config_type_storage(h, item, time, id) ==
    LET last == IF h.last_uuid \in Ids(h) THEN ItemOf(h, h.last_uuid).data ELSE None
    IN IF normalize_data_for_comparison(last) = normalize_data_for_comparison(item)
       THEN [h EXCEPT !.last_updated = time]
       ELSE [data |-> Append(h.data, [id |-> id, data |-> item, fetch_time |-> time]),
             last_updated |-> time, last_uuid |-> id]

\* uuid4: the n-th id a task mints; no two calls give the same id
uuid4(t, n) == IF t = "tick" THEN 2 * n - 1 ELSE 2 * n

\* the order in which save_config updates the five histories
SaveOrder ==
    <<"network_config", "res_version", "engine_config", "launcher_version", "game_config">>

\* the histories of one platform after save_config, run by task t that has
\* minted m ids, updated the first n kinds of SaveOrder: [cfg, minted]
RECURSIVE SaveKinds(_, _, _, _, _, _)
SaveKinds(cfg, new, time, t, m, n) ==
    IF n = 0 THEN [cfg |-> cfg, minted |-> m]
    ELSE LET before == SaveKinds(cfg, new, time, t, m, n - 1)
             k == SaveOrder[n]
             h == update_config_type_storage(before.cfg[k], new[k], time,
                                             uuid4(t, before.minted + 1))
         IN [cfg |-> [before.cfg EXCEPT ![k] = h],
             minted |-> IF Len(h.data) > Len(before.cfg[k].data)
                        THEN before.minted + 1 ELSE before.minted]

\* UpdateChecker.save_config up to the write: the storage it serialises, from
\* the storage it loaded, and the ids the task has minted by then
save_config(storage, new, platform, time, t, m) ==
    LET cfg == IF platform \in DOMAIN storage THEN storage[platform]
               ELSE create_empty_platform_config
        done == SaveKinds(cfg, new, time, t, m, Len(SaveOrder))
    IN [storage |-> [p \in DOMAIN storage \cup {platform} |->
                        IF p = platform THEN done.cfg ELSE storage[p]],
        minted |-> done.minted]

\* UpdateChecker._get_latest_data_from_storage
get_latest_data_from_storage(h) ==
    IF h.data # <<>> /\ h.last_uuid \in Ids(h)
    THEN ItemOf(h, h.last_uuid).data
    ELSE EmptyDict

\* UpdateChecker.parse_config_data of a PlatformLocalConfig
parse_config_data(cfg) ==
    JMap([k \in ConfigKinds |-> get_latest_data_from_storage(cfg[k])])

\* dict.get(key, {})
DictGet(d, key) == IF key \in Keys(d) THEN d[2][key] ELSE EmptyDict

\* a plausible slip: the two sides are compared as they are, not normalized
create_config_update_raw(result, config_key) ==
    LET old_data == DictGet(result.old, config_key)
        new_data == DictGet(result.new, config_key)
    IN [old |-> old_data, new |-> new_data, updated |-> old_data # new_data]

\* UpdateChecker._create_config_update
create_config_update(result, config_key) ==
    LET old_data == DictGet(result.old, config_key)
        new_data == DictGet(result.new, config_key)
    IN [old |-> old_data, new |-> new_data,
        updated |-> normalize_data_for_comparison(old_data)
                        # normalize_data_for_comparison(new_data)]

\* a plausible slip: a platform counts as first-initialised only when the file
\* was read and lacks it
check_single_config_parsed_only(new, platform, f) ==
    LET old_storage == load_cached_config(f)
        old_platform_data ==
            parse_config_data(IF platform \notin DOMAIN old_storage
                              THEN create_empty_platform_config
                              ELSE old_storage[platform])
        new_platform_data == JMap(new)
    IN [old |-> old_platform_data, new |-> new_platform_data,
        updated |-> normalize_data_for_comparison(old_platform_data)
                        # normalize_data_for_comparison(new_platform_data),
        is_first_init |-> Readable(f) /\ platform \notin DOMAIN old_storage]

\* UpdateChecker.check_single_config from the fetched data to the save: the
\* ConfigUpdate and is_first_init it will return, given the file it reads
check_single_config(new, platform, f) ==
    LET old_storage == load_cached_config(f)
        is_first_init == platform \notin DOMAIN old_storage
        old_platform_data ==
            parse_config_data(IF is_first_init THEN create_empty_platform_config
                              ELSE old_storage[platform])
        new_platform_data == JMap(new)
    IN [old |-> old_platform_data, new |-> new_platform_data,
        updated |-> normalize_data_for_comparison(old_platform_data)
                        # normalize_data_for_comparison(new_platform_data),
        is_first_init |-> is_first_init]

\* what check_single_config returns when the fetch gave None
FailedCheck ==
    [old |-> EmptyDict, new |-> EmptyDict, updated |-> FALSE, is_first_init |-> FALSE]

\* UpdateChecker.check_platform_updates: the UpdateCheckResult of a check
check_platform_updates(result) ==
    [k \in ConfigKinds |-> create_config_update(result, k)]

\* NotificationManager.has_any_update of an UpdateCheckResult
has_any_update(result) == \E k \in ConfigKinds : result[k].updated

\* ---------------------------------------------------------------------------
\* Notification composer (__init__.py, config.py)
\* ---------------------------------------------------------------------------
\* the keys of the modelled maps in lexicographic order (what sorted() yields)
KeyOrder ==
    <<"Configs", "Version", "a", "b", "c", "code", "domain", "gameclose", "message",
      "reason", "res_version", "state", "u8root", "urls", "version">>

Rank(k) == CHOOSE i \in 1..Len(KeyOrder) : KeyOrder[i] = k

\* sorted(keys)
sorted(keys) == SelectSeq(KeyOrder, LAMBDA k : k \in keys)

\* OutputFormatter.format_change / format_new_item / format_deleted_item
format_change(label, old_value, new_value) == <<"change", label, old_value, new_value>>
format_new_item(label, value) == <<"new", label, value>>
format_deleted_item(label, value) == <<"deleted", label, value>>
NoChangeLine == <<"nochange">>

\* a plausible slip: every key of both maps is listed as changed
format_dict_changes_all_common(old_dict, new_dict) ==
    LET update_keys == Keys(new_dict) \cap Keys(old_dict)
        new_keys == Keys(new_dict) \ Keys(old_dict)
        delete_keys == Keys(old_dict) \ Keys(new_dict)
        U == sorted(update_keys)
        N == sorted(new_keys)
        D == sorted(delete_keys)
    IN [i \in 1..Len(U) |-> format_change(U[i], old_dict[2][U[i]], new_dict[2][U[i]])]
        \o [i \in 1..Len(N) |-> format_new_item(N[i], new_dict[2][N[i]])]
        \o [i \in 1..Len(D) |-> format_deleted_item(D[i], old_dict[2][D[i]])]

\* NotificationManager.format_dict_changes: the lines of the text it returns
format_dict_changes(old_dict, new_dict) ==
    LET update_keys == {k \in Keys(new_dict) \cap Keys(old_dict) :
                            new_dict[2][k] # old_dict[2][k]}
        new_keys == Keys(new_dict) \ Keys(old_dict)
        delete_keys == Keys(old_dict) \ Keys(new_dict)
        U == sorted(update_keys)
        N == sorted(new_keys)
        D == sorted(delete_keys)
        messages ==
            [i \in 1..Len(U) |-> format_change(U[i], old_dict[2][U[i]], new_dict[2][U[i]])]
            \o [i \in 1..Len(N) |-> format_new_item(N[i], new_dict[2][N[i]])]
            \o [i \in 1..Len(D) |-> format_deleted_item(D[i], old_dict[2][D[i]])]
    IN IF messages = <<>> THEN <<NoChangeLine>> ELSE messages

\* UpdateConfig.priority_order and PRIORITY_MAP; get_priority of a type that
\* is no kind ("error_detected", "error_resolved") is the default, low
priority_order == <<"critical", "high", "medium", "low">>

get_priority(update_type) ==
    CASE update_type = "res_version" -> "critical"
      [] update_type = "network_config" -> "high"
      [] update_type = "game_config" -> "medium"
      [] OTHER -> "low"

PriorityIndex(pr) == CHOOSE i \in 1..Len(priority_order) : priority_order[i] = pr

\* NotificationManager.is_error: RemoteConfigError.model_validate(obj) succeeds
is_error(obj) == Validates(obj, RemoteConfigError)

\* NotificationManager.safe_convert_to_model, dumped
safe_convert_to_model(data, schema) ==
    IF Validates(data, schema) THEN ModelDump(data, schema) ELSE DefaultModel(schema)

\* NotificationManager._build_error_message: "code - reason - message" of the
\* validated RemoteConfigError, a field the data lacks being at its default
build_error_message(error_obj) == ModelDump(error_obj, RemoteConfigError)

\* NotificationManager._get_data_representation of a mapping
get_data_representation(data) ==
    IF is_error(data) THEN build_error_message(data) ELSE data

\* the two lines ahead of the new state in the newly-erroring content
WasNormalLine == <<"was_normal">>

\* the content of the generic (neither side an error) branch of
\* _build_single_update_content: the lines of the text, <<>> for ""
GenericContent(attr_name, old_data, new_data) ==
    CASE attr_name = "launcher_version" ->
            <<format_change("version",
                safe_convert_to_model(old_data, LauncherVersion)[2].version,
                safe_convert_to_model(new_data, LauncherVersion)[2].version)>>
      [] attr_name = "res_version" ->
            LET o == safe_convert_to_model(old_data, ResVersion)[2].res_version
                n == safe_convert_to_model(new_data, ResVersion)[2].res_version
            IN IF n # o THEN <<format_change("res_version", o, n)>> ELSE <<>>
      [] attr_name = "engine_config" ->
            LET o == IF "Version" \in Keys(old_data) THEN old_data[2].Version ELSE JInt(0)
                n == IF "Version" \in Keys(new_data) THEN new_data[2].Version ELSE JInt(0)
            IN IF o # n THEN <<format_change("Version", o, n)>> ELSE <<NoChangeLine>>
      [] OTHER -> format_dict_changes(old_data, new_data)

\* the order in which _build_single_update_content visits the kinds
update_types_info ==
    <<"launcher_version", "res_version", "engine_config", "game_config", "network_config">>

\* _build_single_update_content, the branches for one kind once is_error has
\* judged both sides and the generic content is at hand: the update (a
\* sequence of none or one) it appends; template names the branch taken
Branch(attr_name, old_data, new_data, is_old_error, is_new_error, content) ==
    IF ~is_old_error /\ is_new_error
    THEN <<[type |-> "error_detected", priority |-> get_priority("error_detected"),
            kind |-> attr_name, template |-> "newly_erroring",
            content |-> <<WasNormalLine, get_data_representation(new_data)>>]>>
    ELSE IF is_old_error /\ ~is_new_error
    THEN <<[type |-> "error_resolved", priority |-> get_priority("error_resolved"),
            kind |-> attr_name, template |-> "error_resolved", content |-> <<>>]>>
    ELSE IF is_old_error /\ is_new_error
    THEN IF old_data # new_data
         THEN <<[type |-> "error_detected", priority |-> get_priority("error_detected"),
                 kind |-> attr_name, template |-> "error_detail_changed",
                 content |-> <<get_data_representation(new_data)>>]>>
         ELSE <<>>
    ELSE IF content # <<>>
    THEN <<[type |-> attr_name, priority |-> get_priority(attr_name),
            kind |-> attr_name, template |-> "generic", content |-> content]>>
    ELSE <<>>

\* _build_single_update_content, the body of its loop for one kind
SingleUpdate(attr_name, update_item) ==
    IF ~update_item.updated THEN <<>>
    ELSE Branch(attr_name, update_item.old, update_item.new,
                is_error(update_item.old), is_error(update_item.new),
                GenericContent(attr_name, update_item.old, update_item.new))

\* NotificationManager._build_single_update_content of an UpdateCheckResult
RECURSIVE BuildFrom(_, _)
BuildFrom(result, n) ==
    IF n = 0 THEN <<>>
    ELSE BuildFrom(result, n - 1)
            \o SingleUpdate(update_types_info[n], result[update_types_info[n]])

build_single_update_content(result) == BuildFrom(result, Len(update_types_info))

\* UpdateConfig.priority_order.index sort of build_update_message (stable)
RECURSIVE SortFrom(_, _)
SortFrom(updates, n) ==
    IF n = 0 THEN <<>>
    ELSE SortFrom(updates, n - 1)
            \o SelectSeq(updates, LAMBDA u : u.priority = priority_order[n])

SortByPriority(updates) == SortFrom(updates, Len(priority_order))

\* the string the platforms are grouped by: the sorted "type:content" lines,
\* as the bag of their (type, content) pairs
GroupKey(updates) ==
    LET pairs == {<<updates[i].type, updates[i].content>> : i \in 1..Len(updates)}
    IN [x \in pairs |->
            Cardinality({i \in 1..Len(updates) :
                            <<updates[i].type, updates[i].content>> = x})]

\* the priority max(updates, key=priority_order.index) picks
MaxIndexPriority(updates) ==
    LET i == CHOOSE i \in 1..Len(updates) :
                \A j \in 1..Len(updates) :
                    PriorityIndex(updates[i].priority) >= PriorityIndex(updates[j].priority)
    IN updates[i].priority

\* send_update_notifications, the grouping: cand are the results that have an
\* update ([platform, result], in tick order), ups their update lists and key
\* their content keys.  Platforms of one key share a message, which stands at
\* the key's first platform; raised when max() meets an empty update list.
Grouped(cand, ups, key) ==
    LET firsts == {i \in 1..Len(cand) : \A j \in 1..(i - 1) : key[j] # key[i]}
        Group(i) == {j \in 1..Len(cand) : key[j] = key[i]}
        Names(i) ==
            LET pick == SelectSeq([j \in 1..Len(cand) |-> j], LAMBDA j : j \in Group(i))
            IN [n \in 1..Len(pick) |-> cand[pick[n]].platform]
        Message(i) ==
            [platforms |-> Names(i),
             icon |-> IF Cardinality(Group(i)) > 1 THEN MaxIndexPriority(ups[i])
                      ELSE SortByPriority(ups[i])[1].priority,
             sections |-> SortByPriority(ups[i])]
        kept == SelectSeq([j \in 1..Len(cand) |-> j],
                    LAMBDA j : j \in firsts /\ (Cardinality(Group(j)) > 1 \/ ups[j] # <<>>))
    IN IF \E i \in firsts : Cardinality(Group(i)) > 1 /\ ups[i] = <<>>
       THEN [tag |-> "raise", messages |-> <<>>]
       ELSE [tag |-> "ok", messages |-> [n \in 1..Len(kept) |-> Message(kept[n])]]

\* send_update_notifications, the update lists of the candidates
UpdatesOf(cand) == [i \in 1..Len(cand) |-> build_single_update_content(cand[i].result)]

\* a plausible slip: every platform is given a key of its own
KeysOf_per_platform(ups) == [i \in 1..Len(ups) |-> i]

\* send_update_notifications, the content keys of the update lists
KeysOf(ups) == [i \in 1..Len(ups) |-> GroupKey(ups[i])]

\* send_update_notifications, from the candidates on
SendTo(cand, ups) == Grouped(cand, ups, KeysOf(ups))

\* NotificationManager.send_update_notifications once subscribers exist, for
\* the collected results (a sequence of [platform, result] in tick order): the
\* messages handed to the transport, or raised
SendFrom(cand) == SendTo(cand, UpdatesOf(cand))

send_update_notifications(collected) ==
    SendFrom(SelectSeq(collected, LAMBDA r : has_any_update(r.result)))

\* ---------------------------------------------------------------------------
\* The responses the endpoints can give to one platform check
\* ---------------------------------------------------------------------------
Url(q) == JStr(<<"https://", "h", "/", "f", "?", q>>)
ErrorBody(m) ==
    JMap([code |-> JInt(404), reason |-> Tok("x"), message |-> Tok(m)])

BaseResponses ==
    [network_config |-> JMap([u8root |-> Url("s1"), gameclose |-> JBool(FALSE)]),
     game_config |-> JMap([a |-> JInt(1), b |-> JInt(2), urls |-> JList(<<Url("s1")>>)]),
     res_version |-> JMap([res_version |-> Tok("r1"), domain |-> Url("s1")]),
     engine_config |-> JMap([Version |-> JInt(1), Configs |-> EmptyStr]),
     launcher_version |-> JMap([version |-> Tok("v1"), state |-> JInt(0)]),
     token |-> TRUE]

\* the same content under other URL query strings
NoiseResponses ==
    [BaseResponses EXCEPT
        !.network_config = JMap([u8root |-> Url("s2"), gameclose |-> JBool(FALSE)]),
        !.game_config = JMap([a |-> JInt(1), b |-> JInt(2), urls |-> JList(<<Url("s2")>>)]),
        !.res_version = JMap([res_version |-> Tok("r1"), domain |-> Url("s2")])]

\* new content: a game-settings map and a launcher version
ChangedResponses ==
    [BaseResponses EXCEPT
        !.game_config = JMap([b |-> JInt(2), c |-> JInt(3)]),
        !.launcher_version = JMap([version |-> Tok("v2"), state |-> JInt(0)])]

\* two endpoints answer with a structured failure body
ErrorResponses(m) ==
    [BaseResponses EXCEPT !.game_config = ErrorBody(m), !.launcher_version = ErrorBody(m)]

\* a body that is JSON but no object
BadResponses == [BaseResponses EXCEPT !.engine_config = JList(<<>>)]

\* a request that fails
FailedResponses == [BaseResponses EXCEPT !.network_config = NetFail]

\* the token resolution yields no rand_str
NoTokenResponses == [BaseResponses EXCEPT !.token = FALSE]

\* a game-settings map with a field named code that holds a string
TaggedResponses ==
    [BaseResponses EXCEPT !.game_config = JMap([code |-> Tok("ok"), a |-> JInt(1)])]

\* the same with new content: a game setting and a launcher version
TaggedChangedResponses ==
    [BaseResponses EXCEPT
        !.game_config = JMap([code |-> Tok("ok"), a |-> JInt(2)]),
        !.launcher_version = JMap([version |-> Tok("v2"), state |-> JInt(0)])]

\* no endpoint has answered
NoAnswer == [k \in ConfigKinds \cup {"token"} |-> IF k = "token" THEN FALSE ELSE NetFail]

\* What the endpoints can answer during one run, by the kind of run: URL noise
\* and failing requests; a structured failure body and a body that is no
\* object; two structured failure bodies; new content and failing requests; a
\* failing token
\* resolution; new content of a game-settings map with a code field
Scenarios ==
    <<{BaseResponses, NoiseResponses, FailedResponses},
      {BaseResponses, ErrorResponses("m1"), BadResponses},
      {ErrorResponses("m1"), ErrorResponses("m2")},
      {BaseResponses, ChangedResponses, FailedResponses},
      {BaseResponses, NoTokenResponses},
      {TaggedResponses, TaggedChangedResponses}>>

\* ---------------------------------------------------------------------------
\* State
\* ---------------------------------------------------------------------------
\* the platforms a tick visits, in their order (Platform; the platforms left
\* out have no command and are checked as Android is)
PlatformOrder == <<"default", "Android">>
Platforms == {PlatformOrder[i] : i \in 1..Len(PlatformOrder)}

\* the scheduled job and one manual command query
Tasks == {"tick", "cmd"}

\* ---------------------------------------------------------------------------
\* Bulletin poller (beyonduid_ann/get_data.py, beyonduid_ann/__init__.py).  A
\* bulletin is known by its cid and carries a startAt; the list of a platform
\* names bulletins, the detail request of a cid gives the announcement.
\* ---------------------------------------------------------------------------
MaxPolls == 3
MaxStartAt == 2

Cids == {"1", "2"}
StartAts == 1..MaxStartAt

\* BulletinTargetDataItem, and BulletinData as get_announcement gives it for
\* the item
Items == [cid : Cids, startAt : StartAts]
Announcement(item) == [cid |-> item.cid, startAt |-> item.startAt]

\* the lists a platform can answer with: no cid twice
Listings ==
    {l \in UNION {[1..n -> Items] : n \in 0..Cardinality(Cids)} :
        \A i, j \in 1..Len(l) : i # j => l[i].cid # l[j].cid}

\* what fetch_platform_data returns: None, or the BulletinTargetData with its list
NoTargetData == [ok |-> FALSE, list |-> <<>>]
TargetData == {NoTargetData} \cup {[ok |-> TRUE, list |-> l] : l \in Listings}

\* BulletinAggregate(): data by cid, update by key (cid, n) for "cid_n"
BulletinAggregate == [data |-> <<>>, update |-> <<>>]

\* bulletin.aggregate.json: absent, or the aggregate last saved
NoBulletinFile == [exists |-> FALSE, aggregate |-> BulletinAggregate]

\* load_bulletin_aggregate
load_bulletin_aggregate(f) == IF f.exists THEN f.aggregate ELSE BulletinAggregate

\* sorted(deduplicated, key=startAt, reverse=True), from the n greatest values on
RECURSIVE SortedFrom(_, _)
SortedFrom(l, n) ==
    IF n = 0 THEN <<>>
    ELSE SelectSeq(l, LAMBDA x : x.startAt = n) \o SortedFrom(l, n - 1)

\* deduplicate_updates: the first item of every startAt, latest first
deduplicate_updates(update_list) ==
    LET kept == {i \in 1..Len(update_list) :
                    \A j \in 1..(i - 1) : update_list[j].startAt # update_list[i].startAt}
        pick == SelectSeq([i \in 1..Len(update_list) |-> i], LAMBDA i : i \in kept)
    IN SortedFrom([n \in 1..Len(pick) |-> update_list[pick[n]]], MaxStartAt)

\* generate_update_key; existing_key is None
NoKey == <<>>

generate_update_key(cid, existing_key) ==
    IF existing_key # NoKey THEN <<cid, existing_key[2] + 1>> ELSE <<cid, 1>>

\* d[key] = value and d.pop(key) of a dict
DictSet(d, key, value) ==
    [x \in DOMAIN d \cup {key} |-> IF x = key THEN value ELSE d[x]]
DictPop(d, key) == [x \in DOMAIN d \ {key} |-> d[x]]

\* process_bulletin_updates, the body of its loop for one item: st holds the
\* aggregate's data and update and new_announcements; failing are the cids
\* whose detail request fails
process_item(st, item, failing) ==
    LET found == {k \in DOMAIN st.update : st.update[k].cid = item.cid}
        fetched == item.cid \notin failing
        ann == Announcement(item)
    IN IF found # {}
       THEN LET key == CHOOSE k \in found : TRUE
            IN IF st.update[key].startAt = item.startAt THEN st
               ELSE IF fetched
               THEN [st EXCEPT !.update = DictSet(DictPop(st.update, key),
                                                  generate_update_key(item.cid, key), ann),
                               !.new = DictSet(st.new, item.cid, ann)]
               ELSE [st EXCEPT !.update = DictPop(st.update, key)]
       ELSE IF item.cid \notin DOMAIN st.data /\ fetched
       THEN [st EXCEPT !.data = DictSet(st.data, item.cid, ann),
                       !.new = DictSet(st.new, item.cid, ann)]
       ELSE st

\* process_bulletin_updates over the first n items of the list
RECURSIVE process_bulletin_updates(_, _, _, _)
process_bulletin_updates(update_list, bulletin_aggregate, failing, n) ==
    IF n = 0
    THEN [data |-> bulletin_aggregate.data, update |-> bulletin_aggregate.update,
          new |-> <<>>]
    ELSE process_item(process_bulletin_updates(update_list, bulletin_aggregate, failing,
                                               n - 1),
                      update_list[n], failing)

\* check_bulletin_update on the file f when fetch_platform_data gives windows
\* and android and the detail requests of failing fail: the
\* file afterwards and what is returned or raised.  BulletinTarget has the one
\* field Windows: setattr(bulletin_aggregate.target, "Android", ...) raises
\* AttributeError
check_bulletin_update(f, windows, android, failing) ==
    LET is_first_run == ~f.exists
        bulletin_aggregate == load_bulletin_aggregate(f)
        all_updates == windows.list \o android.list
        update_list == deduplicate_updates(all_updates)
        done == process_bulletin_updates(update_list, bulletin_aggregate, failing,
                                         Len(update_list))
    IN IF android.ok
       THEN [file |-> f, raised |-> TRUE, new_announcements |-> <<>>]
       ELSE IF all_updates = <<>>
       THEN [file |-> f, raised |-> FALSE, new_announcements |-> <<>>]
       ELSE [file |-> [exists |-> TRUE,
                       aggregate |-> [data |-> done.data, update |-> done.update]],
             raised |-> FALSE,
             new_announcements |-> IF is_first_run THEN <<>> ELSE done.new]

\* no poll has run
NoPoll ==
    [job |-> "none", windows |-> NoTargetData, android |-> NoTargetData, failing |-> {},
     raised |-> FALSE, new_announcements |-> <<>>, pushed |-> {}]

VARIABLES
    bulletin_file, \* bulletin.aggregate.json
    poll,        \* the last poll: who ran it, what the requests gave, what it returned
    polls,       \* polls run
    file,        \* remote_config_storage_v2.json
    minted,      \* how many ids uuid4 has given to each task
    pc,          \* where each task stands
    plat,        \* the platform each task is checking
    fresh,       \* the RemoteConfigRemoteData each task fetched
    body,        \* per task, the answers of the endpoints its last fetch got
    result,      \* the ConfigUpdate and is_first_init of each task's check
    pending,     \* the storage each task is about to write
    idx,         \* the tick's position in PlatformOrder
    results,     \* the tick's results dict, in insertion order
    sent,        \* the messages the last tick handed to the transport
    ticks,       \* ticks started
    cmds,        \* command queries started
    faults,      \* OS errors and garbled writes so far
    everWritten, \* every (platform, kind, id) a write has put in the file
    answered,    \* per platform, the answers behind the last write of a check of it
    detected,    \* per platform, the answers behind the last change a tick appended
    scenario,    \* the kind of run: the index in Scenarios of the possible answers
    firstInits,  \* the platforms the running tick found is_first_init for
    arg,         \* input of a function applied on its own
    res,         \* its output
    shared_rand_str, \* UpdateChecker._shared_rand_str, "" for None
    rand_str,    \* per task, the rand_str its _extract_fetch_params holds
    issued       \* per task, the requests its fetch has issued, in order

vars ==
    <<file, minted, pc, plat, fresh, body, result, pending, idx, results, sent,
      ticks, cmds, faults, everWritten, answered, detected, firstInits, scenario, arg,
      res, shared_rand_str, rand_str, issued, bulletin_file, poll, polls>>

\* the steps of a fetch taken one by one: in the checks of the history a fetch
\* is one step and the field token of its answers says whether its token
\* resolution, the cache included, yields a rand_str
fetchVars == <<shared_rand_str, rand_str, issued>>
annVars == <<bulletin_file, poll, polls>>
fnVars == <<arg, res, scenario, fetchVars, annVars>>
storeVars == <<file, minted, everWritten, answered, detected>>

\* datetime.now(), in check intervals: the time advances when a tick is due
now == ticks
tickVars == <<idx, results, sent, ticks, firstInits>>

\* no task is under way
NoTask ==
    /\ pc = [t \in Tasks |-> "idle"]
    /\ plat = [t \in Tasks |-> PlatformOrder[1]]
    /\ fresh = [t \in Tasks |-> NoSnapshots]
    /\ body = [t \in Tasks |-> NoAnswer]
    /\ result = [t \in Tasks |-> FailedCheck]
    /\ pending = [t \in Tasks |-> EmptyStorage]
    /\ idx = 0
    /\ results = <<>>
    /\ sent = <<>>
    /\ ticks = 0
    /\ cmds = 0
    /\ faults = 0
    /\ detected = [p \in Platforms |-> NoAnswer]
    /\ firstInits = {}
    /\ shared_rand_str = ""
    /\ rand_str = [t \in Tasks |-> ""]
    /\ issued = [t \in Tasks |-> <<>>]
    /\ bulletin_file = NoBulletinFile
    /\ poll = NoPoll
    /\ polls = 0

\* the program once constructed: no file, no task under way
Idle ==
    /\ file = Absent
    /\ minted = [t \in Tasks |-> 0]
    /\ everWritten = {}
    /\ answered = [p \in Platforms |-> NoAnswer]
    /\ NoTask

Init ==
    /\ Idle
    /\ scenario \in 1..Len(Scenarios)
    /\ arg = JNull
    /\ res = JNull

\* ---------------------------------------------------------------------------
\* The tasks.  A task runs from one await to the next; the steps are its
\* accesses to the file (two reads, the open that empties it, the write), each
\* taken together with the code that runs before it since the previous access:
\* that code (the fetch, the comparison, the collecting of the result) touches
\* nothing another task reads.  Exceptions leave the scheduled job (it has no
\* handler) and are caught by a command's handler.
\* ---------------------------------------------------------------------------
Entries(storage) ==
    UNION {{<<x[1], x[2], id>> : id \in Ids(storage[x[1]][x[2]])} :
            x \in (DOMAIN storage) \X ConfigKinds}

\* the task's locals once its check is over
Forget(t) ==
    /\ fresh' = [fresh EXCEPT ![t] = NoSnapshots]
    /\ result' = [result EXCEPT ![t] = FailedCheck]
    /\ pending' = [pending EXCEPT ![t] = EmptyStorage]

\* an exception leaves check_platform_updates
Raised(t) ==
    /\ pc' = [pc EXCEPT ![t] = IF t = "tick" THEN "aborted" ELSE "idle"]
    /\ Forget(t)
    /\ UNCHANGED <<plat, tickVars>>

\* a plausible slip: a first initialisation is collected like any result
collect_first_init(u, is_first_init, p) ==
    IF ~has_any_update(u) THEN results
    ELSE Append(results, [platform |-> p, result |-> u])

\* a plausible slip: a result without an update is collected too
collect_every_result(u, is_first_init, p) ==
    IF is_first_init THEN results
    ELSE Append(results, [platform |-> p, result |-> u])

\* check_remote_config_updates, the body of its loop after the check: the
\* results dict with the UpdateCheckResult u of platform p
collect(u, is_first_init, p) ==
    IF is_first_init \/ ~has_any_update(u) THEN results
    ELSE Append(results, [platform |-> p, result |-> u])

\* check_platform_updates returns to its caller with the outcome r of
\* check_single_config: the tick collects the UpdateCheckResult and goes on to
\* the next platform or to the sending; the command replies
Returned(t, r) ==
    /\ IF t = "tick"
       THEN /\ results' = collect(check_platform_updates(r), r.is_first_init, plat[t])
            /\ firstInits' = IF r.is_first_init THEN firstInits \cup {plat[t]}
                             ELSE firstInits
            /\ IF idx < Len(PlatformOrder)
               THEN /\ idx' = idx + 1
                    /\ plat' = [plat EXCEPT ![t] = PlatformOrder[idx + 1]]
                    /\ pc' = [pc EXCEPT ![t] = "check"]
               ELSE /\ pc' = [pc EXCEPT ![t] = "send"]
                    /\ UNCHANGED <<idx, plat>>
            /\ UNCHANGED <<sent, ticks>>
       ELSE /\ pc' = [pc EXCEPT ![t] = "idle"]
            /\ UNCHANGED <<plat, tickVars>>
    /\ Forget(t)

\* check_remote_config_updates is called by the scheduler
TickStart ==
    /\ pc["tick"] \in {"idle", "aborted"}
    /\ ticks < MaxTicks
    /\ ticks' = ticks + 1
    /\ idx' = 1
    /\ results' = <<>>
    /\ sent' = <<>>
    /\ firstInits' = {}
    /\ plat' = [plat EXCEPT !["tick"] = PlatformOrder[1]]
    /\ pc' = [pc EXCEPT !["tick"] = "check"]
    /\ body' = [body EXCEPT !["tick"] = NoAnswer]
    /\ UNCHANGED <<storeVars, fresh, result, pending, cmds, faults, fnVars>>

\* a command handler calls check_platform_updates (DEFAULT or ANDROID)
CmdStart ==
    /\ pc["cmd"] = "idle"
    /\ cmds < MaxCmds
    /\ cmds' = cmds + 1
    /\ \E p \in Platforms : plat' = [plat EXCEPT !["cmd"] = p]
    /\ pc' = [pc EXCEPT !["cmd"] = "check"]
    /\ UNCHANGED <<storeVars, fresh, body, result, pending, tickVars, faults, fnVars>>

\* check_single_config: fetch_all_configs returns the remote data, the file is
\* read and compared with it
Load(t) ==
    /\ pc[t] = "check"
    /\ \E r \in Scenarios[scenario] : \E f \in {fetch_all_configs(r)} :
        /\ f.tag = "ok"
        /\ body' = [body EXCEPT ![t] = r]
        /\ fresh' = [fresh EXCEPT ![t] = f.data]
        /\ result' = [result EXCEPT ![t] = check_single_config(f.data, plat[t], file)]
    /\ pc' = [pc EXCEPT ![t] = "save_load"]
    /\ UNCHANGED <<storeVars, plat, pending, tickVars, cmds, faults, fnVars>>

\* fetch_all_configs returns None: check_single_config returns at once
FetchFailed(t) ==
    /\ pc[t] = "check"
    /\ \E r \in Scenarios[scenario] : \E f \in {fetch_all_configs(r)} :
        /\ f.tag = "none"
        /\ body' = [body EXCEPT ![t] = r]
    /\ Returned(t, FailedCheck)
    /\ UNCHANGED <<storeVars, cmds, faults, fnVars>>

\* RemoteConfigRemoteData rejects a fetched value
FetchRejected(t) ==
    /\ pc[t] = "check"
    /\ \E r \in Scenarios[scenario] : \E f \in {fetch_all_configs(r)} :
        /\ f.tag = "raise"
        /\ body' = [body EXCEPT ![t] = r]
    /\ Raised(t)
    /\ UNCHANGED <<storeVars, cmds, faults, fnVars>>

\* save_config reads the file again and builds the storage to write
SaveLoad(t) ==
    /\ pc[t] = "save_load"
    /\ LET saved == save_config(load_cached_config(file), fresh[t], plat[t], now, t,
                                minted[t])
       IN /\ pending' = [pending EXCEPT ![t] = saved.storage]
          /\ minted' = [minted EXCEPT ![t] = saved.minted]
    /\ pc' = [pc EXCEPT ![t] = "save_open"]
    /\ UNCHANGED <<file, everWritten, answered, detected, plat, fresh, body, result,
                   tickVars, cmds, faults, fnVars>>

\* save_config opens the file for writing, which empties it
SaveOpen(t) ==
    /\ pc[t] = "save_open"
    /\ file' = Unreadable
    /\ pc' = [pc EXCEPT ![t] = "save_write"]
    /\ UNCHANGED <<minted, everWritten, answered, detected, plat, fresh, body, result,
                   pending, tickVars, cmds, faults, fnVars>>

\* the open raises OSError
SaveOpenError(t) ==
    /\ pc[t] = "save_open"
    /\ faults < MaxFaults
    /\ faults' = faults + 1
    /\ body' = [body EXCEPT ![t] = NoAnswer]
    /\ Raised(t)
    /\ UNCHANGED <<storeVars, cmds, fnVars>>

\* save_config writes and closes the file, and check_platform_updates returns
SaveWrite(t) ==
    /\ pc[t] = "save_write"
    /\ file' = Written(pending[t])
    /\ everWritten' = everWritten \cup Entries(pending[t])
    /\ answered' = [answered EXCEPT ![plat[t]] = body[t]]
    /\ detected' = IF /\ t = "tick"
                      /\ ~result[t].is_first_init
                      /\ has_any_update(check_platform_updates(result[t]))
                   THEN [detected EXCEPT ![plat[t]] = body[t]]
                   ELSE detected
    /\ body' = [body EXCEPT ![t] = NoAnswer]
    /\ Returned(t, result[t])
    /\ UNCHANGED <<minted, cmds, faults, fnVars>>

\* the same, onto what another writer wrote since the open: that writer's tail
\* stays in the file when this text is the shorter one
SaveWriteGarbled(t) ==
    /\ pc[t] = "save_write"
    /\ Readable(file)
    /\ faults < MaxFaults
    /\ faults' = faults + 1
    /\ file' = Unreadable
    /\ body' = [body EXCEPT ![t] = NoAnswer]
    /\ Returned(t, result[t])
    /\ UNCHANGED <<minted, everWritten, answered, detected, cmds, fnVars>>

\* the write raises OSError
SaveWriteError(t) ==
    /\ pc[t] = "save_write"
    /\ faults < MaxFaults
    /\ faults' = faults + 1
    /\ body' = [body EXCEPT ![t] = NoAnswer]
    /\ Raised(t)
    /\ UNCHANGED <<storeVars, cmds, fnVars>>

\* send_update_notifications finds no subscriber
TickSendNobody ==
    /\ pc["tick"] = "send"
    /\ pc' = [pc EXCEPT !["tick"] = "idle"]
    /\ UNCHANGED <<storeVars, plat, fresh, body, result, pending, tickVars, cmds, faults,
                   fnVars>>

\* send_update_notifications hands its messages to the subscribers, or raises
\* before any is sent
TickSend ==
    /\ pc["tick"] = "send"
    /\ \E out \in {send_update_notifications(results)} :
        /\ sent' = out.messages
        /\ pc' = [pc EXCEPT !["tick"] = IF out.tag = "ok" THEN "idle" ELSE "aborted"]
    /\ UNCHANGED <<storeVars, plat, fresh, body, result, pending, idx, results, ticks,
                   firstInits, cmds, faults, fnVars>>

Next ==
    \/ TickStart
    \/ CmdStart
    \/ \E t \in Tasks : Load(t)
    \/ \E t \in Tasks : FetchFailed(t)
    \/ \E t \in Tasks : FetchRejected(t)
    \/ \E t \in Tasks : SaveLoad(t)
    \/ \E t \in Tasks : SaveOpen(t)
    \/ \E t \in Tasks : SaveOpenError(t)
    \/ \E t \in Tasks : SaveWrite(t)
    \/ \E t \in Tasks : SaveWriteGarbled(t)
    \/ \E t \in Tasks : SaveWriteError(t)
    \/ TickSendNobody
    \/ TickSend

Spec == Init /\ [][Next]_vars

\* ---------------------------------------------------------------------------
\* The program started again: the history file an earlier run of the process
\* left holds the baseline of every platform
\* ---------------------------------------------------------------------------
RECURSIVE BaselineFrom(_)
BaselineFrom(n) ==
    IF n = 0 THEN [storage |-> EmptyStorage, minted |-> 0]
    ELSE LET before == BaselineFrom(n - 1)
         IN save_config(before.storage, fetch_all_configs(BaseResponses).data,
                        PlatformOrder[n], 0, "tick", before.minted)

\* what the ticks of the earlier run wrote
Baseline == BaselineFrom(Len(PlatformOrder))

\* the kinds of run followed after a restart: URL noise with failing requests,
\* and failure bodies with a body that is no object
RestartScenarios == {i \in 1..Len(Scenarios) : NoiseResponses \in Scenarios[i]
                                                \/ BadResponses \in Scenarios[i]}

RestartInit ==
    /\ file = Written(Baseline.storage)
    /\ minted = [t \in Tasks |-> IF t = "tick" THEN Baseline.minted ELSE 0]
    /\ everWritten = Entries(Baseline.storage)
    /\ answered = [p \in Platforms |-> BaseResponses]
    /\ NoTask
    /\ scenario \in RestartScenarios
    /\ arg = JNull
    /\ res = JNull

RestartSpec == RestartInit /\ [][Next]_vars

\* ---------------------------------------------------------------------------
\* The program started again on the baseline while the endpoints give new
\* content or fail, and the file system does not fail.  The scheduler fires
\* every tick that is due and the event loop resumes every task that can go
\* on; nobody has to send a command.
\* ---------------------------------------------------------------------------
RetryScenarios == {i \in 1..Len(Scenarios) : ChangedResponses \in Scenarios[i]
                                              /\ FailedResponses \in Scenarios[i]}

RetryInit ==
    /\ file = Written(Baseline.storage)
    /\ minted = [t \in Tasks |-> IF t = "tick" THEN Baseline.minted ELSE 0]
    /\ everWritten = Entries(Baseline.storage)
    /\ answered = [p \in Platforms |-> BaseResponses]
    /\ NoTask
    /\ scenario \in RetryScenarios
    /\ arg = JNull
    /\ res = JNull

\* a task goes on with its check
Resume(t) ==
    \/ Load(t)
    \/ FetchFailed(t)
    \/ SaveLoad(t)
    \/ SaveOpen(t)
    \/ SaveWrite(t)

RetryNext ==
    \/ TickStart
    \/ CmdStart
    \/ \E t \in Tasks : Resume(t)
    \/ TickSendNobody
    \/ TickSend

\* the positions of a task
Positions == {"idle", "check", "save_load", "save_open", "save_write", "send", "aborted"}

\* a task that is under way moves on
Resumed(t) ==
    /\ pc[t] \notin {"idle", "aborted"}
    /\ pc' \in [Tasks -> Positions]
    /\ pc'[t] # pc[t]

RetrySpec ==
    /\ RetryInit
    /\ [][RetryNext]_vars
    /\ WF_vars(TickStart)
    /\ \A t \in Tasks : WF_pc(Resumed(t))

\* ---------------------------------------------------------------------------
\* The functions on their own: the input is drawn at the start, the actions
\* apply the function to it
\* ---------------------------------------------------------------------------
programVars ==
    <<file, minted, pc, plat, fresh, body, result, pending, idx, results, sent,
      ticks, cmds, faults, everWritten, answered, detected, firstInits, scenario,
      fetchVars, annVars>>

\* the strings of at most MaxTail tokens after a first token that is a scheme
\* or not
Tails == UNION {[1..n -> {"h", "/", "?", "#", ";"}] : n \in 0..MaxTail}
Strings == {<<first>> \o tail : first \in {"http://", "https://", "h"}, tail \in Tails}

\* snapshot values: a string, alone and inside a list and a map of a list, and
\* scalars
Snapshots ==
    {JStr(x) : x \in Strings}
        \cup {JList(<<JStr(x), JInt(1)>>) : x \in Strings}
        \cup {JMap([urls |-> JList(<<JStr(x)>>), a |-> JNull]) : x \in Strings}
        \cup {JNull, JBool(TRUE), JInt(1), EmptyDict, JList(<<>>)}

NormalizeInit ==
    /\ Idle
    /\ scenario = 1
    /\ arg \in Snapshots
    /\ res = <<>>

\* normalize_data_for_comparison is applied to the input
Normalize ==
    /\ res = <<>>
    /\ res' = <<normalize_data_for_comparison(arg)>>
    /\ UNCHANGED <<programVars, arg>>

\* normalize_data_for_comparison is applied to its own result
NormalizeAgain ==
    /\ Len(res) = 1
    /\ res' = Append(res, normalize_data_for_comparison(res[1]))
    /\ UNCHANGED <<programVars, arg>>

NormalizeNext == Normalize \/ NormalizeAgain

NormalizeSpec == NormalizeInit /\ [][NormalizeNext]_vars

\* the maps over the keys a, b, c with integer values
DiffKeys == {"a", "b", "c"}
DiffMaps ==
    {JMap(f) : f \in UNION {[K -> {JInt(n) : n \in 1..MaxVal}] : K \in SUBSET DiffKeys}}

DiffInit ==
    /\ Idle
    /\ scenario = 1
    /\ arg \in [old : DiffMaps, new : DiffMaps]
    /\ res = <<>>

\* format_dict_changes is applied to the two maps
FormatDictChanges ==
    /\ res = <<>>
    /\ res' = format_dict_changes(arg.old, arg.new)
    /\ UNCHANGED <<programVars, arg>>

DiffNext == FormatDictChanges

DiffSpec == DiffInit /\ [][DiffNext]_vars

\* the stored snapshots of one kind that a ConfigUpdate can hold.  game_config
\* is stored as it was answered: a map of a setting and a URL, with or without
\* a field code that holds a string.  launcher_version and res_version are
\* stored as the dump of their models, or as they were answered when the model
\* rejected them (a field of the wrong type)
SectionKinds == {"game_config", "launcher_version", "res_version"}
SectionUrls == {Url("s1"), Url("s2"), JStr(<<"https://", "h", "/", "g">>)}
SectionSnapshots(kind) ==
    CASE kind = "game_config" ->
            {JMap(f) : f \in UNION {
                {g \in [K \cup {"a"} -> {JInt(1), JInt(2), Tok("ok")} \cup SectionUrls] :
                    /\ g.a \in {JInt(1), JInt(2)}
                    /\ "code" \in K => g.code \in {JInt(1), Tok("ok")}
                    /\ "domain" \in K => g.domain \in SectionUrls} :
                K \in SUBSET {"code", "domain"}}}
      [] kind = "launcher_version" ->
            {JMap([version |-> Tok(v), state |-> st]) :
                    v \in {"v1", "v2"}, st \in {JInt(0), JInt(1)}}
                \cup {JMap([version |-> Tok(v), state |-> Tok("s"), code |-> Tok("ok")]) :
                        v \in {"v1", "v2"}}
      [] kind = "res_version" ->
            {JMap([res_version |-> Tok(r), domain |-> d]) :
                    r \in {"r1", "r2"}, d \in SectionUrls}
                \cup {JMap([res_version |-> Tok(r), domain |-> JInt(n), code |-> Tok("ok")]) :
                        r \in {"r1", "r2"}, n \in 1..2}

SectionInit ==
    /\ Idle
    /\ scenario = 1
    /\ arg \in UNION {[kind : {k}, old : SectionSnapshots(k), new : SectionSnapshots(k)] :
                        k \in SectionKinds}
    /\ res = <<>>

\* _create_config_update compares the two snapshots of the kind and
\* _build_single_update_content renders the ConfigUpdate
BuildSingleUpdateContent ==
    /\ res = <<>>
    /\ res' = <<SingleUpdate(arg.kind,
                    create_config_update([old |-> JMap(arg.kind :> arg.old),
                                          new |-> JMap(arg.kind :> arg.new)], arg.kind))>>
    /\ UNCHANGED <<programVars, arg>>

SectionNext == BuildSingleUpdateContent

SectionSpec == SectionInit /\ [][SectionNext]_vars

\* the answers the endpoints of a platform gave to its last check and give to
\* this one
SendAnswers ==
    {BaseResponses, ChangedResponses, NoTokenResponses, ErrorResponses("m1"),
     [BaseResponses EXCEPT !.launcher_version = JMap([version |-> Tok("v2"), state |-> JInt(0)])]}

\* the UpdateCheckResult of a check that finds the snapshots of the answers
\* old persisted and fetches those of the answers new
ResultOf(old, new) ==
    check_platform_updates([old |-> JMap(fetch_all_configs(old).data),
                            new |-> JMap(fetch_all_configs(new).data)])

\* the results dict of check_remote_config_updates after the checks c of the
\* platforms: the results with an update, in the order of the checks
ResultsOf(c) ==
    LET all == [i \in 1..Len(PlatformOrder) |->
                    [platform |-> PlatformOrder[i],
                     result |-> ResultOf(c[PlatformOrder[i]].old, c[PlatformOrder[i]].new)]]
    IN SelectSeq(all, LAMBDA r : has_any_update(r.result))

SendInit ==
    /\ Idle
    /\ scenario = 1
    /\ arg \in [Platforms -> [old : SendAnswers, new : SendAnswers]]
    /\ res = <<>>

\* send_update_notifications is called with the results and subscribers exist
SendUpdateNotifications ==
    /\ res = <<>>
    /\ res' = <<send_update_notifications(ResultsOf(arg))>>
    /\ UNCHANGED <<programVars, arg>>

SendNext == SendUpdateNotifications

SendSpec == SendInit /\ [][SendNext]_vars

\* ---------------------------------------------------------------------------
\* The fetch of one check, request by request, and the shared rand_str
\* (update_checker.py 42, 74-150, 203-262).  Two checks can be under way at
\* once: each await of a request lets the other one run.
\* ---------------------------------------------------------------------------
\* Platform (model.py): the reference platform and two of the others
WINDOWS == "Windows"
FetchPlatforms == {"default", WINDOWS, "Android"}

\* new content of the launcher alone; a launcher answer without a version; a
\* launcher request that fails
LauncherChangedResponses ==
    [BaseResponses EXCEPT !.launcher_version = JMap([version |-> Tok("v2"), state |-> JInt(0)])]
NoVersionResponses == [BaseResponses EXCEPT !.launcher_version = JMap([state |-> JInt(0)])]
LauncherFailedResponses == [BaseResponses EXCEPT !.launcher_version = NetFail]

\* what the endpoints of a platform can answer to one fetch
FetchResponses ==
    {BaseResponses, LauncherChangedResponses, NoVersionResponses,
     LauncherFailedResponses, FailedResponses}

\* what _fetch_and_decrypt_u8_config can return: None (ok is FALSE) or a
\* U8Config with its randStr
U8Answers ==
    {[ok |-> FALSE, randStr |-> ""], [ok |-> TRUE, randStr |-> ""],
     [ok |-> TRUE, randStr |-> "r1"], [ok |-> TRUE, randStr |-> "r2"]}

\* UpdateChecker._build_url: a request for the launcher version or the U8
\* config of a platform, and for the resource version with its parameters
Request(url, device) ==
    [url |-> url, device |-> device, version |-> EmptyStr, rand_str |-> ""]
ResVersionRequest(device, fetch_params) ==
    [url |-> "res_version", device |-> device, version |-> fetch_params.version,
     rand_str |-> fetch_params.rand_str]

historyVars ==
    <<file, minted, fresh, result, pending, idx, results, sent, ticks, cmds, faults,
      everWritten, answered, detected, firstInits, scenario, arg, res, annVars>>

\* fetch_all_configs is called for a platform and issues the launcher request
FetchStart(t) ==
    /\ pc[t] = "idle"
    /\ \E p \in FetchPlatforms : \E r \in FetchResponses :
        /\ plat' = [plat EXCEPT ![t] = p]
        /\ body' = [body EXCEPT ![t] = r]
        /\ issued' = [issued EXCEPT ![t] = <<Request("launcher_version", p)>>]
    /\ rand_str' = [rand_str EXCEPT ![t] = ""]
    /\ pc' = [pc EXCEPT ![t] = "launcher"]
    /\ UNCHANGED <<historyVars, shared_rand_str>>

\* a plausible slip: the cached value is not looked at
ensure_always_derives(shared) == [hit |-> FALSE, rand_str |-> ""]

\* _ensure_shared_rand_str, its first lines: the cached value when there is one
ensure_shared_rand_str(shared) == [hit |-> shared # "", rand_str |-> shared]

\* a plausible slip: whatever the U8 config request gave is cached
cached_whatever(shared, u8_config) == u8_config.randStr

\* the shared rand_str after a U8 config answer: the randStr of a U8Config
\* when it is not empty, the value held before otherwise
cached_rand_str(shared, u8_config) ==
    IF u8_config.ok /\ u8_config.randStr # "" THEN u8_config.randStr ELSE shared

\* the launcher request is answered.  None ends the fetch; a LauncherVersion
\* leads into _extract_fetch_params, which on Windows asks for the U8 config
\* of the launcher's package (has_pkg: the answer names one) and elsewhere
\* calls _ensure_shared_rand_str: the cached value, or a request for the
\* launcher of Windows
LauncherAnswered(t) ==
    /\ pc[t] = "launcher"
    /\ LET launcher_data == fetch_single_config(body[t].launcher_version, "launcher_version")
       IN IF launcher_data.tag = "none"
          THEN /\ pc' = [pc EXCEPT ![t] = "idle"]
               /\ UNCHANGED <<rand_str, issued>>
          ELSE IF launcher_data.tag # "model"
          THEN /\ pc' = [pc EXCEPT ![t] = "independent"]
               /\ UNCHANGED <<rand_str, issued>>
          ELSE IF plat[t] = WINDOWS
          THEN \E has_pkg \in BOOLEAN :
                /\ pc' = [pc EXCEPT ![t] = IF has_pkg THEN "u8" ELSE "independent"]
                /\ issued' = [issued EXCEPT ![t] =
                                IF has_pkg THEN Append(@, Request("u8ExtraConfig", WINDOWS))
                                ELSE @]
                /\ UNCHANGED rand_str
          ELSE IF ensure_shared_rand_str(shared_rand_str).hit
          THEN /\ rand_str' = [rand_str EXCEPT ![t] =
                                ensure_shared_rand_str(shared_rand_str).rand_str]
               /\ pc' = [pc EXCEPT ![t] = "independent"]
               /\ UNCHANGED issued
          ELSE /\ issued' = [issued EXCEPT ![t] = Append(@, Request("launcher_version", WINDOWS))]
               /\ pc' = [pc EXCEPT ![t] = "win_launcher"]
               /\ UNCHANGED rand_str
    /\ UNCHANGED <<historyVars, shared_rand_str, plat, body>>

\* _extract_fetch_params on Windows: the U8 config request is answered, a
\* randStr that is not empty is taken and cached
U8Answered(t) ==
    /\ pc[t] = "u8"
    /\ \E u8_config \in U8Answers :
        /\ shared_rand_str' = cached_rand_str(shared_rand_str, u8_config)
        /\ rand_str' = [rand_str EXCEPT ![t] =
                          IF u8_config.ok /\ u8_config.randStr # ""
                          THEN u8_config.randStr ELSE @]
    /\ pc' = [pc EXCEPT ![t] = "independent"]
    /\ UNCHANGED <<historyVars, plat, body, issued>>

\* _ensure_shared_rand_str: the request for the launcher of Windows is
\* answered; a LauncherVersion that names a package (has_pkg) leads to the
\* request for its U8 config, anything else to None
WinLauncherAnswered(t) ==
    /\ pc[t] = "win_launcher"
    /\ \E has_pkg \in BOOLEAN :
        /\ pc' = [pc EXCEPT ![t] = IF has_pkg THEN "win_u8" ELSE "independent"]
        /\ issued' = [issued EXCEPT ![t] =
                        IF has_pkg THEN Append(@, Request("u8ExtraConfig", WINDOWS)) ELSE @]
    /\ UNCHANGED <<historyVars, shared_rand_str, rand_str, plat, body>>

\* _ensure_shared_rand_str: the U8 config request is answered; a randStr that
\* is not empty is cached and returned, anything else gives None
WinU8Answered(t) ==
    /\ pc[t] = "win_u8"
    /\ \E u8_config \in U8Answers :
        /\ shared_rand_str' = cached_rand_str(shared_rand_str, u8_config)
        /\ rand_str' = [rand_str EXCEPT ![t] =
                          IF u8_config.ok /\ u8_config.randStr # ""
                          THEN u8_config.randStr ELSE @]
    /\ pc' = [pc EXCEPT ![t] = "independent"]
    /\ UNCHANGED <<historyVars, plat, body, issued>>

\* a plausible slip: the parameters are built from the version alone
fetch_params_any_rand_str(launcher_data, rs) ==
    IF launcher_data.tag = "model" /\ launcher_data.v[2].version # EmptyStr
    THEN [ok |-> TRUE, version |-> launcher_data.v[2].version, rand_str |-> rs]
    ELSE [ok |-> FALSE, version |-> EmptyStr, rand_str |-> ""]

\* _extract_fetch_params, its result: the parameters when the version and the
\* rand_str are not empty, None (ok is FALSE) otherwise
fetch_params(launcher_data, rs) ==
    IF launcher_data.tag = "model" /\ launcher_data.v[2].version # EmptyStr /\ rs # ""
    THEN [ok |-> TRUE, version |-> launcher_data.v[2].version, rand_str |-> rs]
    ELSE [ok |-> FALSE, version |-> EmptyStr, rand_str |-> ""]

\* fetch_all_configs, independent_configs
independent_configs == <<"engine_config", "network_config", "game_config">>

\* fetch_all_configs from the independent kinds on: their requests in order
\* up to the first that gives None, then, when none did and there are fetch
\* parameters, the resource version request
FetchRest(t) ==
    /\ pc[t] = "independent"
    /\ LET launcher_data == fetch_single_config(body[t].launcher_version, "launcher_version")
           params == fetch_params(launcher_data, rand_str[t])
           failing == {i \in 1..Len(independent_configs) :
                        fetch_single_config(body[t][independent_configs[i]],
                                            independent_configs[i]).tag = "none"}
           last == IF failing = {} THEN Len(independent_configs)
                   ELSE CHOOSE i \in failing : \A j \in failing : i <= j
       IN issued' = [issued EXCEPT ![t] =
                        @ \o [i \in 1..last |-> Request(independent_configs[i], plat[t])]
                          \o IF failing = {} /\ params.ok
                             THEN <<ResVersionRequest(plat[t], params)>>
                             ELSE <<>>]
    /\ pc' = [pc EXCEPT ![t] = "idle"]
    /\ UNCHANGED <<historyVars, shared_rand_str, rand_str, plat, body>>

FetchNext ==
    \/ \E t \in Tasks : FetchStart(t)
    \/ \E t \in Tasks : LauncherAnswered(t)
    \/ \E t \in Tasks : U8Answered(t)
    \/ \E t \in Tasks : WinLauncherAnswered(t)
    \/ \E t \in Tasks : WinU8Answered(t)
    \/ \E t \in Tasks : FetchRest(t)

FetchInit ==
    /\ Idle
    /\ scenario = 1
    /\ arg = JNull
    /\ res = JNull

FetchSpec == FetchInit /\ [][FetchNext]_vars

\* ---------------------------------------------------------------------------
\* The polls of the bulletin poller (beyonduid_ann/__init__.py): the scheduled
\* job and the refresh command, one poll at a time
\* ---------------------------------------------------------------------------
updateCheckVars ==
    <<storeVars, tickVars, pc, plat, fresh, body, result, pending, cmds, faults, arg, res,
      scenario, fetchVars>>

\* a poll by job: the requests give windows, android and fail for failing;
\* subscribed says whether get_subscribe finds a subscriber
Poll(job, windows, android, failing, subscribed) ==
    /\ polls < MaxPolls
    /\ polls' = polls + 1
    /\ \E out \in {check_bulletin_update(bulletin_file, windows, android, failing)} :
        /\ bulletin_file' = out.file
        /\ poll' = [job |-> job, windows |-> windows, android |-> android,
                    failing |-> failing, raised |-> out.raised,
                    new_announcements |-> out.new_announcements,
                    pushed |-> IF job = "check_ark_ann" /\ subscribed
                               THEN DOMAIN out.new_announcements ELSE {}]
    /\ UNCHANGED updateCheckVars

\* check_ark_ann, the scheduled job: it polls and pushes what the poll returns.
\* The Android request fails or lists what the Windows request would list
check_ark_ann ==
    \E listed \in TargetData, windows_fails \in BOOLEAN, android_fails \in BOOLEAN,
       failing \in SUBSET Cids, subscribed \in BOOLEAN :
        Poll("check_ark_ann", IF windows_fails THEN NoTargetData ELSE listed,
             IF android_fails THEN NoTargetData ELSE listed, failing, subscribed)

\* force_ann_, the refresh command: it polls and replies with the count
force_ann_ ==
    \E listed \in TargetData, windows_fails \in BOOLEAN, android_fails \in BOOLEAN,
       failing \in SUBSET Cids :
        Poll("force_ann_", IF windows_fails THEN NoTargetData ELSE listed,
             IF android_fails THEN NoTargetData ELSE listed, failing, FALSE)

BulletinInit ==
    /\ Idle
    /\ scenario = 1
    /\ arg = JNull
    /\ res = JNull

BulletinNext == check_ark_ann \/ force_ann_

BulletinSpec == BulletinInit /\ [][BulletinNext]_vars

\* ---------------------------------------------------------------------------
\* Properties
\* ---------------------------------------------------------------------------
\* the latest persisted snapshot of (platform p, kind k) in the file f: the data
\* of the entry the latest pointer names, the empty map when there is none
LatestPersisted(f, p, k) ==
    IF Readable(f) /\ p \in DOMAIN f.storage
       /\ \E i \in 1..Len(f.storage[p][k].data) :
            f.storage[p][k].data[i].id = f.storage[p][k].last_uuid
    THEN LET h == f.storage[p][k]
             i == CHOOSE i \in 1..Len(h.data) : h.data[i].id = h.last_uuid
         IN h.data[i].data
    ELSE EmptyDict

\* the file holds an entry for platform p
HasEntry(f, p) == Readable(f) /\ p \in DOMAIN f.storage

\* task t takes the step of its check named by the positions before and after
Step(t, from, to) == pc[t] = from /\ pc'[t] = to

\* the check of task t returns to its caller
Returns(t) == pc[t] = "save_write" /\ pc'[t] \in {"check", "send", "idle"}

\* C1: first-tick suppression.  When a scheduled tick checks a platform that
\* has no entry in the history file at either read of the check and the fetch
\* succeeds, the storage the check builds and then writes holds, for each of the
\* five kinds of that platform, exactly one entry, which holds the fresh
\* snapshot and is the one the latest pointer names; and no message the tick
\* hands to the transport names a platform the tick found first-initialised.
C1_FirstTickSuppression ==
    /\ [][(/\ Step("tick", "save_load", "save_open")
           /\ result["tick"].is_first_init
           /\ ~HasEntry(file, plat["tick"]))
          => \A k \in ConfigKinds :
                LET h == pending'["tick"][plat["tick"]][k]
                IN /\ Len(h.data) = 1
                   /\ h.data[1].data = fresh["tick"][k]
                   /\ h.last_uuid = h.data[1].id
                   /\ h.last_uuid # NullId]_vars
    /\ [][(Returns("tick") /\ Readable(file')) => file'.storage = pending["tick"]]_vars
    /\ [](\A i \in 1..Len(sent) : \A n \in 1..Len(sent[i].platforms) :
            sent[i].platforms[n] \notin firstInits)

\* a tick has written the baseline of a platform it found first-initialised and
\* has handed a message about another platform to the transport
C1_Witness ==
    /\ pc["tick"] = "idle"
    /\ sent # <<>>
    /\ firstInits # {}
    /\ \A p \in firstInits :
        /\ HasEntry(file, p)
        /\ \A k \in ConfigKinds : Len(file.storage[p][k].data) = 1

\* C2: the persisted history only grows under any interleaving.  With no OS
\* error and no garbled write, whenever the file is readable every entry
\* (platform, kind, id) that a write has once put in it is in it.
C2_HistoryOnlyGrows ==
    (faults = 0 /\ Readable(file)) => everWritten \subseteq Entries(file.storage)

\* C3: after every save_config, every history of the persisted storage has a
\* latest pointer that is the null id over an empty mapping, or the id of an
\* entry of the mapping.
C3_LatestPointer ==
    Readable(file) =>
        \A p \in DOMAIN file.storage : \A k \in ConfigKinds :
            LET h == file.storage[p][k]
            IN \/ h.last_uuid = NullId /\ h.data = <<>>
               \/ \E i \in 1..Len(h.data) : h.data[i].id = h.last_uuid

\* a save has moved the latest pointer of a history from one entry to a later
\* one
C3_Witness ==
    /\ Readable(file)
    /\ \E p \in DOMAIN file.storage : \E k \in ConfigKinds :
        LET h == file.storage[p][k]
        IN Len(h.data) >= 2 /\ h.last_uuid = h.data[Len(h.data)].id

\* C4: fault isolation.  While no OS error has struck, no failure inside one
\* platform's pipeline (here the schema decoding of a fetched body) aborts the
\* scheduled tick.
C4_FaultIsolation == faults = 0 => pc["tick"] # "aborted"

\* C5: for every platform and kind, the updated flag of the ConfigUpdate that
\* check_platform_updates returns is true exactly when the normalized fresh
\* snapshot differs from the normalized latest persisted snapshot of that
\* platform and kind, as the file holds it when the check reads it (the empty
\* map when there is none).
C5_UpdatedFlag ==
    [][\A t \in Tasks :
        Step(t, "check", "save_load") =>
            \A k \in ConfigKinds :
                check_platform_updates(result'[t])[k].updated
                    <=> (normalize_data_for_comparison(fresh'[t][k])
                            # normalize_data_for_comparison(
                                    LatestPersisted(file, plat[t], k)))]_vars

\* a tick has collected a result in which the fresh snapshot of one kind is
\* flagged updated and that of another kind is not
C5_Witness ==
    \E i \in 1..Len(results) : \E k1, k2 \in ConfigKinds :
        results[i].result[k1].updated /\ ~results[i].result[k2].updated

\* a URL string without its query: the tokens from the first "?" up to the
\* fragment are left out
QueryCut(s) ==
    LET f == Find(s, {"#"}, 1)
        q == Find(s, {"?"}, 1)
    IN IF q < f THEN Slice(s, 1, q - 1) \o Slice(s, f, Len(s)) ELSE s

\* the values a and b differ at most in the queries of URL strings, at any
\* depth inside maps and lists
RECURSIVE OnlyQueriesDiffer(_, _)
OnlyQueriesDiffer(a, b) ==
    IF IsDict(a) /\ IsDict(b)
    THEN Keys(a) = Keys(b) /\ \A k \in Keys(a) : OnlyQueriesDiffer(a[2][k], b[2][k])
    ELSE IF IsList(a) /\ IsList(b)
    THEN Len(a[2]) = Len(b[2])
            /\ \A i \in 1..Len(a[2]) : OnlyQueriesDiffer(a[2][i], b[2][i])
    ELSE IF IsStr(a) /\ IsStr(b) /\ StartsWithHttp(a[2]) /\ StartsWithHttp(b[2])
    THEN QueryCut(a[2]) = QueryCut(b[2])
    ELSE a = b

\* C6: URL-noise invariance.  When the fresh snapshot of a kind differs from
\* the latest persisted snapshot, as the file holds it when the check reads
\* it, only in the queries of URL strings, the check flags the kind not
\* updated and its save appends no entry to the kind's history; a tick
\* collects no result that has no updated kind, and hands the transport
\* messages about collected platforms only.
C6_UrlNoiseInvariance ==
    /\ [][\A t \in Tasks : \A k \in ConfigKinds :
            (/\ Step(t, "check", "save_load")
             /\ OnlyQueriesDiffer(fresh'[t][k], LatestPersisted(file, plat[t], k)))
            => ~check_platform_updates(result'[t])[k].updated]_vars
    /\ [][\A t \in Tasks : \A k \in ConfigKinds :
            (/\ Step(t, "save_load", "save_open")
             /\ HasEntry(file, plat[t])
             /\ file.storage[plat[t]][k].data # <<>>
             /\ OnlyQueriesDiffer(fresh[t][k], LatestPersisted(file, plat[t], k)))
            => pending'[t][plat[t]][k].data = file.storage[plat[t]][k].data]_vars
    /\ [][(/\ Returns("tick")
           /\ \A k \in ConfigKinds : ~check_platform_updates(result["tick"])[k].updated)
          => results' = results]_vars
    /\ [](\A i \in 1..Len(sent) : \A n \in 1..Len(sent[i].platforms) :
            \E j \in 1..Len(results) : results[j].platform = sent[i].platforms[n])

\* a check has fetched snapshots that differ from the persisted ones, and only
\* in URL queries, has flagged no update and is about to write a storage with
\* the histories of its platform as long as they were
C6_Witness ==
    \E t \in Tasks :
        /\ pc[t] = "save_open"
        /\ HasEntry(file, plat[t])
        /\ \A k \in ConfigKinds :
            /\ OnlyQueriesDiffer(fresh[t][k], LatestPersisted(file, plat[t], k))
            /\ Len(pending[t][plat[t]][k].data) = Len(file.storage[plat[t]][k].data)
        /\ \E k \in ConfigKinds : fresh[t][k] # LatestPersisted(file, plat[t], k)
        /\ ~result[t].updated

\* C7: normalize_data_for_comparison is idempotent: applied to its own result
\* it returns that result.
C7_NormalizeIdempotent == Len(res) = 2 => res[2] = res[1]

\* a map that holds a URL inside a list was normalized twice, the first time to
\* another value
C7_Witness ==
    /\ Len(res) = 2
    /\ IsDict(arg)
    /\ res[1] # arg

\* a RemoteError as a value: a map of code, reason and message
IsRemoteError(v) == IsDict(v) /\ Keys(v) = {"code", "reason", "message"}

\* C8: the newly-erroring template.  Every section of a message handed to the
\* transport whose ConfigUpdate has a RemoteError as its new side and a value
\* that is no RemoteError as its old side uses the newly-erroring template.
C8_NewlyErroringTemplate ==
    \A i \in 1..Len(sent) : \A n \in 1..Len(sent[i].sections) :
        \A j \in 1..Len(results) :
            results[j].platform = sent[i].platforms[1] =>
                LET u == results[j].result[sent[i].sections[n].kind]
                IN (~IsRemoteError(u.old) /\ IsRemoteError(u.new))
                        => sent[i].sections[n].template = "newly_erroring"

\* an answer of an endpoint that is a RemoteError
IsErrorBody(b) == b # NetFail /\ IsRemoteError(b)

\* C9: error-detail stability, the changed half.  In a run of scheduled ticks
\* alone with no OS error, when the endpoint of a kind answers a RemoteError
\* that differs only in its message from the RemoteError it answered to the
\* last check of the platform, the check flags the kind updated.
C9_ErrorMessageChange ==
    [][\A k \in ConfigKinds :
        (/\ Step("tick", "check", "save_load")
         /\ cmds = 0 /\ faults = 0
         /\ IsErrorBody(body'["tick"][k])
         /\ IsErrorBody(answered[plat["tick"]][k])
         /\ body'["tick"][k][2].code = answered[plat["tick"]][k][2].code
         /\ body'["tick"][k][2].reason = answered[plat["tick"]][k][2].reason
         /\ body'["tick"][k][2].message # answered[plat["tick"]][k][2].message)
        => check_platform_updates(result'["tick"])[k].updated]_vars

\* the keys of the lines of one class, in the order of the lines
ClassKeys(lines, class) ==
    LET of == SelectSeq(lines, LAMBDA l : l[1] = class)
    IN [i \in 1..Len(of) |-> of[i][2]]

\* the keys in the sequence q are distinct and in lexicographic order
Ascending(q) == \A i, j \in 1..Len(q) : i < j => Rank(q[i]) < Rank(q[j])

Range(q) == {q[i] : i \in 1..Len(q)}

\* C10: map diff correctness.  The lines format_dict_changes returns list as
\* added exactly the keys only in the new map, as removed exactly the keys
\* only in the old map and as changed exactly the keys of both whose values
\* differ, each with its value or values; no key is in two classes, a key with
\* equal values is in none, and the keys of each class are in lexicographic
\* order.
C10_MapDiff ==
    res # <<>> =>
        LET old == arg.old[2]
            new == arg.new[2]
            added == ClassKeys(res, "new")
            removed == ClassKeys(res, "deleted")
            changed == ClassKeys(res, "change")
        IN /\ Range(added) = DOMAIN new \ DOMAIN old
           /\ Range(removed) = DOMAIN old \ DOMAIN new
           /\ Range(changed) = {k \in DOMAIN old \cap DOMAIN new : old[k] # new[k]}
           /\ Ascending(added) /\ Ascending(removed) /\ Ascending(changed)
           /\ Range(added) \cap Range(removed) = {}
           /\ Range(added) \cap Range(changed) = {}
           /\ Range(removed) \cap Range(changed) = {}
           /\ \A i \in 1..Len(res) :
                \/ res[i] = NoChangeLine /\ Len(res) = 1
                \/ res[i][1] = "new" /\ res[i][3] = new[res[i][2]]
                \/ res[i][1] = "deleted" /\ res[i][3] = old[res[i][2]]
                \/ res[i][1] = "change" /\ res[i][3] = old[res[i][2]]
                        /\ res[i][4] = new[res[i][2]]

\* old {a:1, b:2}, new {b:2, c:3}: c is added with 3, a is removed with 1,
\* nothing is changed
C10_Witness ==
    /\ arg = [old |-> JMap([a |-> JInt(1), b |-> JInt(2)]),
              new |-> JMap([b |-> JInt(2), c |-> JInt(3)])]
    /\ res = <<<<"new", "c", JInt(3)>>, <<"deleted", "a", JInt(1)>>>>

\* the notification body a platform's result produces: the title (kind and
\* template) and the content of its sections, in the order of the message
NotificationBody(r) ==
    LET sections == SortByPriority(build_single_update_content(r))
    IN [n \in 1..Len(sections) |->
            <<sections[n].kind, sections[n].template, sections[n].content>>]

\* C11: cross-platform grouping.  When a tick has handed messages to the
\* transport, any two platforms it collected whose results produce the same
\* notification body are named together in the header of one message, and in
\* no other message.
C11_CrossPlatformGrouping ==
    sent # <<>> =>
        \A i, j \in 1..Len(results) :
            NotificationBody(results[i].result) = NotificationBody(results[j].result)
            => \E m \in 1..Len(sent) :
                /\ results[i].platform \in Range(sent[m].platforms)
                /\ results[j].platform \in Range(sent[m].platforms)
                /\ \A m2 \in 1..Len(sent) :
                    m2 # m => results[i].platform \notin Range(sent[m2].platforms)

\* a tick has handed the transport one message that names two platforms
C11_Witness ==
    /\ Len(sent) = 1
    /\ Len(sent[1].platforms) = 2
    /\ Len(results) = 2

\* the kinds a fetch with the answers r requested and got an answer for
Answered(r) == {k \in requested(r) : fetch_single_config(r[k], k).tag # "none"}

\* C12: a network failure of one kind skips only that kind.  When the fetch of
\* a check is refused for a network-level failure of one kind, the check has,
\* by the time it returns, persisted the snapshots of the kinds of the platform
\* whose requests were answered: the latest entry of each such kind is the
\* answered snapshot.
C12_NetworkFailureIsolation ==
    [][\A t \in Tasks :
        (/\ pc[t] = "check"
         /\ body'[t] # NoAnswer
         /\ \E k \in ConfigKinds : body'[t][k] = NetFail)
        => \A k \in Answered(body'[t]) :
            /\ HasEntry(file', plat[t])
            /\ normalize_data_for_comparison(LatestPersisted(file', plat[t], k))
               = normalize_data_for_comparison(fetch_single_config(body'[t][k], k).v)]_vars

\* the four kinds fetched without fetch parameters
IndependentKinds == ConfigKinds \ {"res_version"}

\* C13: a failing token resolution degrades the resource version only.  When
\* the token resolution of a check yields nothing and the four other requests
\* are answered, fetch_all_configs issues no resource-version request and is
\* not refused; the fresh resource-version snapshot is the default ResVersion
\* and the four others are the decoded answers; the check compares all five
\* with the history, and its write leaves each of them as the latest entry of
\* its kind.
C13_TokenFailureDegradesResVersion ==
    /\ [][\A t \in Tasks :
            (/\ pc[t] = "check"
             /\ body'[t] # NoAnswer
             /\ ~body'[t].token
             /\ \A k \in IndependentKinds : body'[t][k] # NetFail)
            => /\ "res_version" \notin requested(body'[t])
               /\ IndependentKinds \subseteq requested(body'[t])
               /\ pc'[t] = "save_load"
               /\ fresh'[t].res_version = DefaultModel(ResVersion)
               /\ \A k \in IndependentKinds :
                    fresh'[t][k] = fetch_single_config(body'[t][k], k).v
               /\ \A k \in ConfigKinds :
                    /\ check_platform_updates(result'[t])[k].new = fresh'[t][k]
                    /\ check_platform_updates(result'[t])[k].old
                       = LatestPersisted(file, plat[t], k)]_vars
    /\ [][\A t \in Tasks :
            (Returns(t) /\ ~body[t].token /\ file' = Written(pending[t]))
            => /\ normalize_data_for_comparison(LatestPersisted(file', plat[t], "res_version"))
                  = normalize_data_for_comparison(DefaultModel(ResVersion))
               /\ \A k \in IndependentKinds :
                    normalize_data_for_comparison(LatestPersisted(file', plat[t], k))
                    = normalize_data_for_comparison(
                        fetch_single_config(body[t][k], k).v)]_vars

\* a check whose token resolution failed has written the history of a platform
\* that had a resource version persisted: the default ResVersion is now its
\* latest resource version, next to the launcher version that was answered
C13_Witness ==
    \E p \in Platforms :
        /\ answered[p] # NoAnswer
        /\ ~answered[p].token
        /\ HasEntry(file, p)
        /\ Len(file.storage[p].res_version.data) = 2
        /\ LatestPersisted(file, p, "res_version") = DefaultModel(ResVersion)
        /\ LatestPersisted(file, p, "launcher_version")
           = fetch_single_config(answered[p].launcher_version, "launcher_version").v

\* the open or the write of task t's save_config raises OSError
WriteFails(t) ==
    /\ pc[t] \in {"save_open", "save_write"}
    /\ pc'[t] \notin {"save_open", "save_write"}
    /\ faults' = faults + 1
    /\ file' = file

\* C14: a failing write is caught.  When the open or the write of the history
\* file fails inside save_config during a scheduled tick, the tick is not
\* aborted: check_platform_updates returns the result of the check and the tick
\* collects it for notification as it does after a successful write.
C14_WriteFailureCaught ==
    [][WriteFails("tick")
        => /\ pc'["tick"] # "aborted"
           /\ results' = collect(check_platform_updates(result["tick"]),
                                 result["tick"].is_first_init, plat["tick"])]_vars

\* task t has loaded the history in a check and not yet finished writing it
InLoadCompareWrite(t) == pc[t] \in {"save_load", "save_open", "save_write"}

\* C15: single-writer discipline.  No two check_platform_updates calls for the
\* same platform are between their first load of the history and the end of
\* their write at the same time.
C15_SingleWriter ==
    \A t1, t2 \in Tasks :
        (t1 # t2 /\ InLoadCompareWrite(t1) /\ InLoadCompareWrite(t2))
        => plat[t1] # plat[t2]

\* C16: manual queries are read-only.  No step of a command query puts an
\* entry into the history file that no write had put there before.
C16_ManualQueryReadOnly ==
    [][pc'["cmd"] # pc["cmd"] => everWritten' = everWritten]_vars

\* every answer an endpoint gives in this run carries the same content: two
\* answers of one endpoint are equal or differ in the query strings of their
\* URLs only
SteadyEndpoints ==
    \A r1, r2 \in Scenarios[scenario] : \A k \in ConfigKinds :
        \/ r1[k] = NetFail
        \/ r2[k] = NetFail
        \/ r1[k] = r2[k]
        \/ OnlyQueriesDiffer(r1[k], r2[k])

\* C17: failures surface as no update.  In a run of scheduled ticks alone,
\* with no OS error, where every answer of every endpoint carries the same content, whatever
\* requests and token resolutions fail, no tick hands a change notification to
\* the transport.
C17_FailuresAreNoUpdate ==
    (SteadyEndpoints /\ cmds = 0 /\ faults = 0) => sent = <<>>

\* the typed kinds whose answer in r is JSON that fails the kind's schema
SchemaFailures(r) ==
    {k \in DOMAIN model_map : r[k] # NetFail /\ ~Validates(r[k], model_map[k])}

\* C18: a schema failure becomes a RemoteError snapshot.  When the fetch of a
\* check gets, for some kind, a JSON body that fails the kind's schema, the
\* check does not raise: it goes on to compare and save, with a RemoteError as
\* the fresh snapshot of that kind.
C18_SchemaFailureIsRemoteError ==
    [][\A t \in Tasks :
        (/\ pc[t] = "check"
         /\ body'[t] # NoAnswer
         /\ SchemaFailures(body'[t]) # {})
        => /\ pc'[t] = "save_load"
           /\ \A k \in SchemaFailures(body'[t]) : IsRemoteError(fresh'[t][k])]_vars

\* C19: section order and header icon.  In every message handed to the
\* transport, for one platform or merged for several, the sections stand in
\* non-increasing priority order and the header icon is that of the
\* highest-priority section of the message.
C19_OrderAndIcon ==
    \A i \in 1..Len(sent) :
        /\ \A n \in 1..(Len(sent[i].sections) - 1) :
            PriorityIndex(sent[i].sections[n].priority)
                <= PriorityIndex(sent[i].sections[n + 1].priority)
        /\ \E n \in 1..Len(sent[i].sections) : sent[i].icon = sent[i].sections[n].priority
        /\ \A n \in 1..Len(sent[i].sections) :
            PriorityIndex(sent[i].icon) <= PriorityIndex(sent[i].sections[n].priority)

\* the priority the kinds are to have: resource version, then network, then
\* game and engine settings, then launcher version
KindPriority ==
    [res_version |-> "critical", network_config |-> "high", game_config |-> "medium",
     engine_config |-> "medium", launcher_version |-> "low"]

\* C20: priority by kind.  Every section of a message handed to the transport
\* has the priority of its config kind.
C20_PriorityByKind ==
    \A i \in 1..Len(sent) : \A n \in 1..Len(sent[i].sections) :
        sent[i].sections[n].priority = KindPriority[sent[i].sections[n].kind]

\* C21: a change is notified at most once.  When a scheduled tick's check of
\* a platform fetches the very answers that stood behind the last change a
\* tick appended for that platform, and no check of the platform has written
\* other answers since, its result is one the tick does not collect (no
\* kind is flagged updated, or it is a first initialisation), so that no
\* message names the platform again; this does not depend on what became of the
\* message of the earlier tick.
C21_NotifiedAtMostOnce ==
    [][(/\ Step("tick", "check", "save_load")
        /\ detected[plat["tick"]] # NoAnswer
        /\ body'["tick"] = detected[plat["tick"]]
        /\ body'["tick"] = answered[plat["tick"]])
        => \/ result'["tick"].is_first_init
           \/ ~has_any_update(check_platform_updates(result'["tick"]))]_vars

\* C22: an absent or unparsable history file is an empty store.  Loading such
\* a file yields the empty storage; a check that loads it goes on (it does not
\* raise), finds the platform first-initialised with nothing on the old side of
\* any kind, and the storage a save builds from such a file holds that platform
\* alone, with one entry per kind holding the fresh snapshot; a tick collects
\* no result of a first initialisation, so no message names the platform.
C22_MissingFileIsEmptyStore ==
    /\ [](~Readable(file) => load_cached_config(file) = EmptyStorage)
    /\ [][\A t \in Tasks :
            (Step(t, "check", "save_load") /\ ~Readable(file))
            => /\ result'[t].is_first_init
               /\ \A k \in ConfigKinds :
                    check_platform_updates(result'[t])[k].old = EmptyDict]_vars
    /\ [][\A t \in Tasks :
            (Step(t, "save_load", "save_open") /\ ~Readable(file))
            => /\ DOMAIN pending'[t] = {plat[t]}
               /\ \A k \in ConfigKinds :
                    /\ Len(pending'[t][plat[t]][k].data) = 1
                    /\ pending'[t][plat[t]][k].data[1].data = fresh[t][k]]_vars
    /\ [][(Returns("tick") /\ result["tick"].is_first_init) => results' = results]_vars

\* a tick's check has just loaded a history file that an earlier write left
\* unparsable, after entries of the platform had been written, and found the
\* platform first-initialised
C22_Witness ==
    /\ pc["tick"] = "save_load"
    /\ pc["cmd"] = "idle"
    /\ file.st = "unreadable"
    /\ result["tick"].is_first_init
    /\ \E x \in everWritten : x[1] = plat["tick"]

\* the save of task t finds the fresh snapshot of kind k equal, after
\* normalization, to the latest persisted one of its platform
UnchangedPath(t, k) ==
    /\ Step(t, "save_load", "save_open")
    /\ HasEntry(file, plat[t])
    /\ file.storage[plat[t]][k].data # <<>>
    /\ file.storage[plat[t]][k].last_uuid \in Ids(file.storage[plat[t]][k])
    /\ normalize_data_for_comparison(LatestPersisted(file, plat[t], k))
       = normalize_data_for_comparison(fresh[t][k])

LoadedHistory(f, p, k) == IF HasEntry(f, p) THEN f.storage[p][k] ELSE EmptyHistory

\* the save of task t finds no latest snapshot of kind k of its platform, or
\* one that differs, after normalization, from the fresh snapshot
ChangedPath(t, k) ==
    /\ Step(t, "save_load", "save_open")
    /\ \/ LoadedHistory(file, plat[t], k).last_uuid
            \notin Ids(LoadedHistory(file, plat[t], k))
       \/ normalize_data_for_comparison(LatestPersisted(file, plat[t], k))
          # normalize_data_for_comparison(fresh[t][k])

\* C24: changed path of the store.  When the history a save loaded has no
\* latest snapshot of a kind, or one that normalizes differently from the fresh
\* snapshot, the history the save builds is the loaded one, its entries
\* unchanged and in their order, followed by exactly one entry: it holds the
\* fresh snapshot and the current time under an id that is not the null id and
\* not in the loaded mapping, and the latest pointer names it.
C24_ChangedPath ==
    [][\A t \in Tasks : \A k \in ConfigKinds :
        ChangedPath(t, k)
        => LET h == LoadedHistory(file, plat[t], k)
               h2 == pending'[t][plat[t]][k]
           IN /\ Len(h2.data) = Len(h.data) + 1
              /\ \A i \in 1..Len(h.data) : h2.data[i] = h.data[i]
              /\ h2.data[Len(h2.data)].data = fresh[t][k]
              /\ h2.data[Len(h2.data)].fetch_time = now
              /\ h2.data[Len(h2.data)].id \notin Ids(h) \cup {NullId}
              /\ h2.last_uuid = h2.data[Len(h2.data)].id
              /\ h2.last_updated = now]_vars

\* a save has appended a fresh snapshot to a history that held an entry: the
\* earlier entry stands before the new one, which the latest pointer names
C24_Witness ==
    \E t \in Tasks : \E k \in ConfigKinds :
        /\ pc[t] = "save_open"
        /\ HasEntry(file, plat[t])
        /\ Len(file.storage[plat[t]][k].data) = 1
        /\ Len(pending[t][plat[t]][k].data) = 2
        /\ pending[t][plat[t]][k].data[1] = file.storage[plat[t]][k].data[1]
        /\ pending[t][plat[t]][k].last_uuid = pending[t][plat[t]][k].data[2].id

\* the positions of the requests for url in the requests a task has issued
RequestsFor(t, urls) == {i \in 1..Len(issued[t]) : issued[t][i].url \in urls}

\* C25: the resource version request comes last and with full parameters.  In
\* the requests of one fetch, a resource version request stands behind the
\* launcher request of the platform and behind every request of the token
\* resolution, no answer of which is then awaited; it carries the version of
\* the launcher answer of this fetch and the rand_str this fetch resolved, and
\* neither is empty.
C25_ResVersionLast ==
    \A t \in Tasks : \A i \in RequestsFor(t, {"res_version"}) :
        /\ issued[t][1] = Request("launcher_version", plat[t])
        /\ \A j \in RequestsFor(t, {"launcher_version", "u8ExtraConfig"}) : j < i
        /\ pc[t] \notin {"launcher", "u8", "win_launcher", "win_u8"}
        /\ issued[t][i].device = plat[t]
        /\ issued[t][i].version
             = fetch_single_config(body[t].launcher_version, "launcher_version").v[2].version
        /\ issued[t][i].version # EmptyStr
        /\ issued[t][i].rand_str = rand_str[t]
        /\ issued[t][i].rand_str # ""

\* a fetch of Android has derived the token from Windows and then asked for
\* the resource version
C25_Witness ==
    \E t \in Tasks :
        /\ plat[t] = "Android"
        /\ RequestsFor(t, {"u8ExtraConfig"}) # {}
        /\ RequestsFor(t, {"res_version"}) # {}

\* the positions of the requests a task has issued for an endpoint of Windows
WindowsRequests(t) == {i \in 1..Len(issued[t]) : issued[t][i].device = WINDOWS}

\* C26: the cached token is reused.  From the moment the shared rand_str is
\* cached, a check of a platform other than Windows that starts issues no
\* request for the launcher or the U8 config of Windows; when it resolves its
\* token it takes the cached value; and such a check asks for the launcher of
\* Windows only when it finds the cache empty.
C26_CachedTokenReused ==
    /\ \A t \in Tasks :
        []((shared_rand_str # "" /\ pc[t] = "idle")
            => []((pc[t] # "idle" /\ plat[t] # WINDOWS) => WindowsRequests(t) = {}))
    /\ [][\A t \in Tasks :
            (/\ pc[t] = "launcher" /\ pc'[t] = "independent"
             /\ plat[t] # WINDOWS /\ shared_rand_str # ""
             /\ fetch_single_config(body[t].launcher_version, "launcher_version").tag = "model")
            => rand_str'[t] = shared_rand_str /\ issued'[t] = issued[t]]_vars
    /\ [][\A t \in Tasks :
            (plat[t] # WINDOWS /\ pc[t] = "launcher" /\ issued'[t] # issued[t])
            => shared_rand_str = ""]_vars

\* a check of Android has taken the cached rand_str: it holds it after its
\* launcher request alone
C26_Witness ==
    \E t \in Tasks :
        /\ plat[t] = "Android"
        /\ pc[t] = "independent"
        /\ shared_rand_str # ""
        /\ rand_str[t] = shared_rand_str
        /\ issued[t] = <<Request("launcher_version", "Android")>>

\* C27: the shared rand_str has no expiry.  Once it is not empty it stays not
\* empty, whatever requests fail; it changes only to the rand_str that a U8
\* config of Windows, asked for by the step's check, has just given to that
\* check, and that value is not empty.
C27_CacheNeverCleared ==
    [][/\ shared_rand_str # "" => shared_rand_str' # ""
       /\ shared_rand_str' # shared_rand_str
            => /\ shared_rand_str' # ""
               /\ \E t \in Tasks :
                    /\ pc[t] \in {"u8", "win_u8"}
                    /\ issued[t][Len(issued[t])] = Request("u8ExtraConfig", WINDOWS)
                    /\ rand_str'[t] = shared_rand_str']_vars

\* the cache holds a rand_str other than the one a check still under way took
\* from it, and the U8 config request of a later check of Windows gave nothing
C27_Witness ==
    \E t, u \in Tasks :
        /\ shared_rand_str # ""
        /\ plat[t] = WINDOWS /\ pc[t] = "independent"
        /\ Len(issued[t]) = 2 /\ rand_str[t] = ""
        /\ rand_str[u] # "" /\ rand_str[u] # shared_rand_str

\* r are the answers of a fetch, and a request that fetch issued failed at
\* network level
RequestFailed(r) == r # NoAnswer /\ \E k \in requested(r) : r[k] = NetFail

\* task t, at the fetch of its check, takes a step
Fetches(t) == pc[t] = "check" /\ (pc'[t] # "check" \/ (t = "tick" /\ idx' # idx))

\* C28: a failed request leaves the history alone.  When a request of a check
\* fails at network level, the check returns at once: the file and every entry
\* ever written stay as they are, no storage to write is built, the result has
\* updated false for every kind, the tick collects nothing for the platform,
\* and the messages a tick hands to the transport name only platforms it
\* collected, so none names the platform of the failed check.
C28_FailedRequestLeavesHistory ==
    /\ [][\A t \in Tasks :
            (Fetches(t) /\ RequestFailed(body'[t]))
            => /\ file' = file /\ everWritten' = everWritten /\ minted' = minted
               /\ pc'[t] \in {"check", "send", "idle"}
               /\ pending'[t] = EmptyStorage
               /\ \A k \in ConfigKinds : ~check_platform_updates(result'[t])[k].updated
               /\ results' = results /\ sent' = sent
               /\ \A i \in 1..Len(results') :
                    t = "tick" => results'[i].platform # plat[t]]_vars
    /\ [][pc["tick"] = "send" /\ pc'["tick"] # "send"
            => \A m \in 1..Len(sent') :
                Range(sent'[m].platforms) \subseteq {results[i].platform : i \in 1..Len(results)}]_vars
    /\ [](RequestFailed(body["tick"])
            => \A m \in 1..Len(sent) : plat["tick"] \notin Range(sent[m].platforms))

\* a tick whose check of its last platform met a failing request has handed a
\* message about another platform to the transport, and the history of the
\* platform of the failed check is in the file
C28_Witness ==
    /\ pc["tick"] = "idle"
    /\ RequestFailed(body["tick"])
    /\ sent # <<>>
    /\ HasEntry(file, plat["tick"])

\* the latest persisted snapshots of platform p are, up to normalization, the
\* new content: a check that fetches the new content finds nothing changed
LatestIsNew(p) ==
    \A k \in ConfigKinds :
        normalize_data_for_comparison(LatestPersisted(file, p, k))
        = normalize_data_for_comparison(fetch_all_configs(ChangedResponses).data[k])

\* the ticks of the run are over and no task is under way
RunOver == ticks = MaxTicks /\ \A t \in Tasks : pc[t] \in {"idle", "aborted"}

C29_NoChangeLostByTicks ==
    \A p \in Platforms :
        (pc["tick"] = "save_load" /\ plat["tick"] = p /\ body["tick"] = ChangedResponses
            /\ cmds = 0)
        ~> (cmds > 0 \/ detected[p] = ChangedResponses)

\* the result the tick collected for platform p
CollectedFor(p) ==
    LET i == CHOOSE i \in 1..Len(results) : results[i].platform = p
    IN results[i].result

C31_ClassifiedOnNormalized ==
    (Len(res) = 1 /\ arg.kind = "game_config") =>
        \A n \in 1..Len(res[1]) : \A k \in Keys(arg.old) \cap Keys(arg.new) :
            normalize_data_for_comparison(arg.old[2][k])
                    = normalize_data_for_comparison(arg.new[2][k])
                => \A i \in 1..Len(res[1][n].content) :
                        res[1][n].content[i] # format_change(k, arg.old[2][k], arg.new[2][k])

\* C32: the record-shaped kinds.  When launcher_version or res_version is
\* reported as changed and neither side is a RemoteError, a section is rendered
\* and it holds a change line for every field whose value differs between the
\* old and the new snapshot.
C32_EveryDifferingField ==
    (/\ Len(res) = 1
     /\ arg.kind \in {"launcher_version", "res_version"}
     /\ ~IsRemoteError(arg.old) /\ ~IsRemoteError(arg.new)
     /\ normalize_data_for_comparison(arg.old) # normalize_data_for_comparison(arg.new))
        => /\ res[1] # <<>>
           /\ \A f \in Keys(arg.old) \cap Keys(arg.new) :
                normalize_data_for_comparison(arg.old[2][f])
                        # normalize_data_for_comparison(arg.new[2][f])
                    => \E n \in 1..Len(res[1]) : \E i \in 1..Len(res[1][n].content) :
                            /\ res[1][n].content[i][1] = "change"
                            /\ res[1][n].content[i][2] = f

\* the case of C32 in which the generic formatter is the one that renders:
\* neither side validates as RemoteConfigError
C32_GenericBranch ==
    (/\ Len(res) = 1
     /\ arg.kind \in {"launcher_version", "res_version"}
     /\ ~is_error(arg.old) /\ ~is_error(arg.new)
     /\ normalize_data_for_comparison(arg.old) # normalize_data_for_comparison(arg.new))
        => /\ res[1] # <<>>
           /\ \A f \in Keys(arg.old) \cap Keys(arg.new) :
                normalize_data_for_comparison(arg.old[2][f])
                        # normalize_data_for_comparison(arg.new[2][f])
                    => \E n \in 1..Len(res[1]) : \E i \in 1..Len(res[1][n].content) :
                            /\ res[1][n].content[i][1] = "change"
                            /\ res[1][n].content[i][2] = f

\* the check of task t is about to write a history of (platform p, kind k) whose
\* latest entry is new and not the first of the history
Appends(t, p, k) ==
    /\ pc[t] = "save_write"
    /\ plat[t] = p
    /\ p \in DOMAIN pending[t]
    /\ Len(pending[t][p][k].data) >= 2
    /\ <<p, k, pending[t][p][k].last_uuid>> \notin everWritten

\* the tick is at send_update_notifications with a result of platform p in
\* which kind k is updated
Handed(p, k) ==
    /\ pc["tick"] = "send"
    /\ \E i \in 1..Len(results) :
        results[i].platform = p /\ results[i].result[k].updated

C33_AbortLosesNothing ==
    [][(pc["tick"] \in {"check", "save_load", "save_open", "save_write"}
            /\ pc'["tick"] = "aborted")
        => results = <<>>]_vars

\* the number of entries the storage holds for (platform p, kind k)
EntryCount(storage, p, k) ==
    IF p \in DOMAIN storage THEN Len(storage[p][k].data) ELSE 0

\* save_config of the check of task t, as it reads the file and builds the
\* storage to write, appends an entry for kind k exactly when the result of
\* the check flags k updated
FlagMatchesStore(t, k) ==
    check_platform_updates(result[t])[k].updated
        <=> EntryCount(pending'[t], plat[t], k)
                > EntryCount(load_cached_config(file), plat[t], k)

\* C34: the flag and the store agree.  For every kind, the updated flag that
\* check_platform_updates returns is true exactly when save_config of the
\* same check appends a new entry to the history of that kind.
C34_FlagMatchesStore ==
    [][\A t \in Tasks : Step(t, "save_load", "save_open") =>
            \A k \in ConfigKinds : FlagMatchesStore(t, k)]_vars

\* the same for the checks of ticks as long as nobody has sent a command
C34_FlagMatchesStoreAlone ==
    [][(cmds = 0 /\ Step("tick", "save_load", "save_open")) =>
            \A k \in ConfigKinds : FlagMatchesStore("tick", k)]_vars

\* C35: platforms are merged only on identical bodies.  Every platform a
\* message names has produced the notification body (titles and contents of
\* the sections) that the message carries.
C35_MergedOnlyIfIdentical ==
    Len(res) = 1 =>
        \A m \in 1..Len(res[1].messages) : \A n \in 1..Len(res[1].messages[m].platforms) :
            LET sections == res[1].messages[m].sections
                p == res[1].messages[m].platforms[n]
            IN NotificationBody(ResultOf(arg[p].old, arg[p].new))
                = [j \in 1..Len(sections) |->
                        <<sections[j].kind, sections[j].template, sections[j].content>>]

\* C36: no history repeats itself.  In the history file, whatever checks of
\* ticks and commands have run and however their steps were interleaved, any
\* two consecutive entries of the history of a platform and kind hold snapshots
\* that differ after normalization.
C36_ConsecutiveEntriesDiffer ==
    Readable(file) =>
        \A p \in DOMAIN file.storage : \A k \in ConfigKinds :
            LET h == file.storage[p][k]
            IN \A i \in 1..(Len(h.data) - 1) :
                normalize_data_for_comparison(h.data[i].data)
                    # normalize_data_for_comparison(h.data[i + 1].data)

\* a history of two entries in a file that a tick and a command have both
\* written, the command while the tick was under way
C36_Witness ==
    /\ Readable(file)
    /\ \E p \in DOMAIN file.storage : \E k \in ConfigKinds :
        /\ Len(file.storage[p][k].data) >= 2
        /\ \E i, j \in 1..Len(file.storage[p][k].data) :
            /\ \E n \in 1..minted["tick"] : file.storage[p][k].data[i].id = uuid4("tick", n)
            /\ \E n \in 1..minted["cmd"] : file.storage[p][k].data[j].id = uuid4("cmd", n)
    /\ pc["tick"] \notin {"idle", "aborted"}

\* a poll is run in this step
Polled == polls' = polls + 1

\* the items the platforms list in the poll of this step
ListedItems == Range(poll'.windows.list) \cup Range(poll'.android.list)

\* the cids recorded in the bulletin file f
RecordedCids(f) == DOMAIN f.aggregate.data

\* C37: first-run suppression of the bulletin poller.  A poll that finds no
\* bulletin file while a platform lists a bulletin creates the file, records
\* every listed bulletin whose detail request succeeds, returns no announcement
\* and pushes nothing; a poll that finds the file returns only bulletins that
\* were not recorded before it.
C37_BulletinFirstRun ==
    [][Polled =>
        /\ (~bulletin_file.exists /\ ListedItems # {})
            => /\ ~poll'.raised
               /\ bulletin_file'.exists
               /\ \A item \in ListedItems :
                    item.cid \notin poll'.failing => item.cid \in RecordedCids(bulletin_file')
               /\ poll'.new_announcements = <<>>
               /\ poll'.pushed = {}
        /\ bulletin_file.exists
            => DOMAIN poll'.new_announcements \cap RecordedCids(bulletin_file) = {}]_vars

\* the same for the polls in which the Android request fails
C37_BulletinFirstRunWindows ==
    [][(Polled /\ ~poll'.android.ok /\ ~bulletin_file.exists /\ ListedItems # {})
        => /\ bulletin_file'.exists
           /\ \A item \in ListedItems :
                item.cid \notin poll'.failing => item.cid \in RecordedCids(bulletin_file')
           /\ poll'.new_announcements = <<>>]_vars

\* the poll of this step records the listed, unrecorded item, and returns it
\* after the first run, when its detail request succeeds, and leaves it
\* unrecorded when the request fails
Complete(item) ==
    IF item.cid \in poll'.failing
    THEN item.cid \notin RecordedCids(bulletin_file')
    ELSE /\ item.cid \in RecordedCids(bulletin_file')
         /\ bulletin_file.exists => item.cid \in DOMAIN poll'.new_announcements

\* C38: completeness of the bulletin poller.  In every poll, each bulletin a
\* platform lists that is not recorded yet is recorded and, unless the poll is
\* the first run, returned as new when its detail request succeeds, and stays
\* unrecorded when the request fails.
C38_BulletinCompleteness ==
    [][Polled =>
        \A item \in ListedItems :
            item.cid \notin RecordedCids(bulletin_file) => Complete(item)]_vars

\* the same for the polls in which the Android request fails
C38_BulletinCompletenessWindows ==
    [][(Polled /\ ~poll'.android.ok) =>
        \A item \in ListedItems :
            item.cid \notin RecordedCids(bulletin_file) => Complete(item)]_vars

\* the startAt the bulletin file f has recorded last for cid
RecordedStartAt(f, cid) ==
    LET found == {k \in DOMAIN f.aggregate.update : f.aggregate.update[k].cid = cid}
    IN IF found # {} THEN f.aggregate.update[CHOOSE k \in found : TRUE].startAt
       ELSE f.aggregate.data[cid].startAt

\* the number n of the update key cid_n the bulletin file f holds, 0 for none
UpdateNumber(f, cid) ==
    LET found == {k \in DOMAIN f.aggregate.update : k[1] = cid}
    IN IF found # {} THEN (CHOOSE k \in found : TRUE)[2] ELSE 0

\* C39: update detection of the bulletin poller.  In every poll that does
\* not raise, for each item process_bulletin_updates is given whose cid is
\* recorded: if its startAt differs from the recorded one and the detail
\* request succeeds, the bulletin is returned and recorded under the update
\* key of the next number (1 for the first update); if its startAt is the
\* recorded one, it is not returned.
C39_BulletinUpdateDetection ==
    [][(Polled /\ ~poll'.raised) =>
        \A i \in 1..Len(deduplicate_updates(poll'.windows.list \o poll'.android.list)) :
            LET item == deduplicate_updates(poll'.windows.list \o poll'.android.list)[i]
            IN item.cid \in RecordedCids(bulletin_file) =>
                IF RecordedStartAt(bulletin_file, item.cid) = item.startAt
                THEN item.cid \notin DOMAIN poll'.new_announcements
                ELSE item.cid \notin poll'.failing =>
                        /\ item.cid \in DOMAIN poll'.new_announcements
                        /\ UpdateNumber(bulletin_file', item.cid)
                            = UpdateNumber(bulletin_file, item.cid) + 1]_vars

\* the half of C39 about an unchanged startAt
C39_UnchangedNotReturned ==
    [][(Polled /\ ~poll'.raised) =>
        \A item \in ListedItems :
            (/\ item.cid \in RecordedCids(bulletin_file)
             /\ RecordedStartAt(bulletin_file, item.cid) = item.startAt)
            => item.cid \notin DOMAIN poll'.new_announcements]_vars

\* no update key is ever recorded
C39_NoUpdateKey == bulletin_file.aggregate.update = <<>>

====
